---- MODULE Spec2Model ----
(***************************************************************************)
(* Big Joker Spades room engine.                                           *)
(*                                                                         *)
(* The model follows the latest server iteration (src/unnamed/part_005,    *)
(* lines 940-2169) together with the modules it requires: scoring and      *)
(* bidding (src/unnamed/part_000), trick (src/functions/trick.js), deck    *)
(* (src/functions/deck.js), dealer (src/functions/dealer.js), deal         *)
(* (src/unnamed/part_001) and the default bot (src/unnamed/part_002).      *)
(*                                                                         *)
(* The room object is one record, `room`; every handler of the server is   *)
(* an operator from rooms to rooms, composed in the order the JavaScript   *)
(* executes, and an action of the model is one handler run to completion.  *)
(* JavaScript null is NoSeat / NoPick (-1) for numbers and "none" for      *)
(* strings.  Three fields of `room` are not fields of the JavaScript room:  *)
(* match_complete (the reason of the last match_complete message, "none"   *)
(* before any), hand_scored (how many hand_scored messages carried the     *)
(* current hand number) and botTicksPending (how many timers set by        *)
(* scheduleBotAct have not fired yet).                                     *)
(***************************************************************************)
EXTENDS Integers, Sequences, FiniteSets, TLC

\* ------------------------------------------------------------------ bounds
\* cards dealt to each seat, i.e. tricks per hand (13 in the source)
HandSize == 1
PlayHandSize == 3
\* outcomes of a shuffle in the specifications of the playing phase
PlayShuffles == 5
\* cards dealt to each seat where two rooms are compared
SnapshotHandSize == 2
\* outcomes of a shuffle where two rooms are compared
SnapshotShuffles == 12
\* the bid values clients send are 1 and MaxBid (1..13 in the source)
MaxBid == 3
\* hands of a match whose messages are handled
MaxHands == 1
\* outcomes of the random source of shuffleDeck that are explored
NumShuffles == 2
\* the re-scoring of a resolved hand is followed up to this score
MaxScore == 120
\* seats the administrator may fill with bots (seat 4, then 3, ...)
MaxBots == 1
\* connections that close during a match (those of seats 1..MaxCloses)
MaxCloses == 1
\* bidding messages that arrive outside the bidding and negotiating phases
MaxStray == 1
\* hands of a match that are scored one after the other
MaxScoredHands == 2
\* random sources of the shuffle of the 52 cards
DeckShuffles == 3

\* ------------------------------------------------------- program constants
NoSeat == -1
NoPick == -1
RenegeDelta == 3
MaxRenegeCallsPerTeam == 3
BotLoopGuardMax == 30
\* tricks of a hand of the full deck
TricksInHand == 13

Seats == 1..4
Teams == {"A", "B"}

SeatList == <<1, 2, 3, 4>>

\* ------------------------------------------------------------- small helpers
Max(a, b) == IF a >= b THEN a ELSE b
Min(a, b) == IF a <= b THEN a ELSE b

seatToTeam(seat) == IF seat = 1 \/ seat = 3 THEN "A" ELSE "B"

otherTeam(team) == IF team = "A" THEN "B" ELSE "A"

teamSeats(team) == IF team = "A" THEN {1, 3} ELSE {2, 4}

\* the seat to the right
nextSeatCounterClockwise(seat) == IF seat = 1 THEN 4 ELSE seat - 1

nextSeatClockwise(seat) == IF seat = 4 THEN 1 ELSE seat + 1

leftOfDealer(dealerSeat) == nextSeatClockwise(dealerSeat)

dealingTeamFromDealerSeat(dealerSeat) ==
  IF dealerSeat = 1 \/ dealerSeat = 3 THEN "A"
  ELSE IF dealerSeat = 2 \/ dealerSeat = 4 THEN "B"
  ELSE "none"

nonDealingTeamFromDealerSeat(dealerSeat) ==
  LET deal == dealingTeamFromDealerSeat(dealerSeat)
  IN  IF deal = "none" THEN "none" ELSE IF deal = "A" THEN "B" ELSE "A"

\* --------------------------------------------------------------------- deck
SuitNames == <<"S", "H", "D", "C">>
RankNames == <<"2", "3", "4", "5", "6", "7", "8", "9", "10", "J", "Q", "K", "A">>
SpadeOrder == <<"A", "K", "Q", "J", "10", "9", "8", "7", "6", "5", "4", "3">>

IndexOf(seq, x) ==
  IF \E i \in 1..Len(seq) : seq[i] = x
  THEN CHOOSE i \in 1..Len(seq) : seq[i] = x /\ \A j \in 1..(i - 1) : seq[j] # x
  ELSE 0

\* the order in which applyTrumpMeta hands out 1000, 999, ...
TrumpOrder(config) ==
  LET bigJoker == IF config.big_joker = "bw" THEN "JOKER_BW" ELSE "JOKER_COLOR"
      littleJoker == IF bigJoker = "JOKER_COLOR" THEN "JOKER_BW" ELSE "JOKER_COLOR"
      bigDeuceId == IF config.big_deuce = "S2" THEN "S2" ELSE "D2"
      littleDeuceId == IF bigDeuceId = "D2" THEN "S2" ELSE "D2"
  IN  <<bigJoker, littleJoker, bigDeuceId, littleDeuceId>>
        \o [i \in 1..Len(SpadeOrder) |-> "S" \o SpadeOrder[i]]

\* applyTrumpMeta that ranks by the default configuration
applyTrumpMetaDefault(deck, config) ==
  LET order == TrumpOrder([big_joker |-> "color", big_deuce |-> "D2"])
  IN  [i \in 1..Len(deck) |->
         [deck[i] EXCEPT
            !.is_trump = (~deck[i].is_joker /\ deck[i].suit = "S")
                         \/ IndexOf(order, deck[i].id) > 0,
            !.trump_rank_value = IF IndexOf(order, deck[i].id) > 0
                                 THEN 1000 - (IndexOf(order, deck[i].id) - 1)
                                 ELSE 0]]

applyTrumpMeta(deck, config) ==
  LET ranked(c, pos) ==
        [c EXCEPT
          !.is_trump = (~c.is_joker /\ c.suit = "S") \/ c.id = "D2"
                       \/ c.id = "JOKER_COLOR" \/ c.id = "JOKER_BW" \/ pos > 0,
          !.trump_rank_value = IF pos > 0 THEN 1000 - (pos - 1) ELSE 0]
      meta(order) == [i \in 1..Len(deck) |-> ranked(deck[i], IndexOf(order, deck[i].id))]
  IN  meta(TrumpOrder(config))

buildDeck(config) ==
  LET plain(i) ==
        LET suit == SuitNames[((i - 1) \div 13) + 1]
            rank == RankNames[((i - 1) % 13) + 1]
        IN  [id |-> suit \o rank, suit |-> suit, rank |-> rank, is_joker |-> FALSE,
             is_trump |-> FALSE, trump_rank_value |-> 0]
      all == [i \in 1..52 |-> plain(i)]
      kept(c) == ~(c.rank = "2" /\ (c.suit = "H" \/ c.suit = "C"))
      joker(id) == [id |-> id, suit |-> "J", rank |-> "JOKER", is_joker |-> TRUE,
                    is_trump |-> TRUE, trump_rank_value |-> 0]
  IN  applyTrumpMeta(SelectSeq(all, kept) \o <<joker("JOKER_COLOR"), joker("JOKER_BW")>>,
                     config)

\* The cards a hand of the model is played with: the first 4 * handSize ids
\* of this list, in the order buildDeck puts them.
ModelCardIds ==
  <<"SA", "H5", "D3", "CK",
    "JOKER_COLOR", "HA", "D2", "C4",
    "S3", "H9", "DQ", "C7",
    "S2", "HK", "D8", "CA">>

DeckSize(handSize) == 4 * handSize

modelDeck(config, handSize) ==
  LET ids == {ModelCardIds[i] : i \in 1..DeckSize(handSize)}
      inModel(c) == c.id \in ids
  IN  SelectSeq(buildDeck(config), inModel)

DeckConfigs == [big_joker : {"color", "bw"}, big_deuce : {"D2", "S2"}]

\* card object by id (cards are immutable after buildDeck); @@ <<>> makes the
\* table an explicit function, f @@ <<>> = f
CardTable ==
  LET byId(d) == [id \in {d[i].id : i \in 1..Len(d)} |->
                    d[CHOOSE i \in 1..Len(d) : d[i].id = id]]
  IN  [config \in DeckConfigs |-> byId(buildDeck(config)) @@ <<>>] @@ <<>>

CardOf(config, id) == CardTable[config][id]

\* One Fisher-Yates pass; rnd(i) is what crypto.randomInt(0, i + 1) returned
\* for the 0-based position i.  TLA+ sequences are 1-based.
RECURSIVE fisherYates(_, _, _)
fisherYates(a, i, seed) ==
  IF i <= 0 THEN a
  ELSE LET j == (seed * (i + 2) + i) % (i + 1)
           swapped == [a EXCEPT ![i + 1] = a[j + 1], ![j + 1] = a[i + 1]]
       IN  fisherYates(swapped, i - 1, seed)

shuffleDeck(deck, seed) == fisherYates(deck, Len(deck) - 1, seed)

\* -------------------------------------------------------------------- dealer
determineFirstDealerSeat(shuffledDeck) ==
  LET hits == {i \in 1..Len(shuffledDeck) : shuffledDeck[i].suit = "D"}
      first == CHOOSE i \in hits : \A j \in hits : i <= j
  IN  IF hits = {} THEN NoSeat ELSE ((first - 1) % 4) + 1

\* a deal in blocks: the first cards to seat 1, the next to seat 2, ...
dealHandsInBlocks(shuffledDeck) ==
  [s \in Seats |->
     [i \in 1..(Len(shuffledDeck) \div 4) |->
        shuffledDeck[(s - 1) * (Len(shuffledDeck) \div 4) + i].id]]

\* ---------------------------------------------------------------------- deal
dealHands(shuffledDeck) ==
  [s \in Seats |->
     LET mine(i) == shuffledDeck[(i - 1) * 4 + s].id
     IN  [i \in 1..(Len(shuffledDeck) \div 4) |-> mine(i)]]

\* --------------------------------------------------------------------- trick
effectiveSuit(card) == IF card.is_trump THEN "S" ELSE card.suit

nonTrumpRankValue(card) == IndexOf(RankNames, card.rank) - 1

\* the team a seat does not belong to
teamAcrossFromSeat(seat) == otherTeam(seatToTeam(seat))

teamForSeat(seat) == IF seat = 1 \/ seat = 3 THEN "A" ELSE "B"

\* beats that compares ranks of cards that are not trump without regard to
\* the lead suit
beatsByRankAlone(cardA, cardB, leadSuit) ==
  IF cardA.is_trump /\ ~cardB.is_trump THEN TRUE
  ELSE IF ~cardA.is_trump /\ cardB.is_trump THEN FALSE
  ELSE IF cardA.is_trump /\ cardB.is_trump
    THEN cardA.trump_rank_value > cardB.trump_rank_value
  ELSE nonTrumpRankValue(cardA) > nonTrumpRankValue(cardB)

beats(cardA, cardB, leadSuit) ==
  LET aTrump == cardA.is_trump
      bTrump == cardB.is_trump
      aSuit == effectiveSuit(cardA)
      bSuit == effectiveSuit(cardB)
  IN  IF aTrump /\ ~bTrump THEN TRUE
      ELSE IF ~aTrump /\ bTrump THEN FALSE
      ELSE IF aTrump /\ bTrump THEN cardA.trump_rank_value > cardB.trump_rank_value
      ELSE IF aSuit = leadSuit /\ bSuit # leadSuit THEN TRUE
      ELSE IF aSuit # leadSuit /\ bSuit = leadSuit THEN FALSE
      ELSE nonTrumpRankValue(cardA) > nonTrumpRankValue(cardB)

\* plays carry card ids; config gives the card objects
RECURSIVE bestPlay(_, _, _, _, _)
bestPlay(config, plays, leadSuit, i, best) ==
  IF i > Len(plays) THEN best
  ELSE bestPlay(config, plays, leadSuit, i + 1,
                IF beats(CardOf(config, plays[i].card_id),
                         CardOf(config, plays[best].card_id), leadSuit)
                THEN i ELSE best)

determineTrickWinner(config, trick) ==
  IF Len(trick.plays) = 0 THEN NoSeat
  ELSE trick.plays[bestPlay(config, trick.plays, trick.leadSuit, 2, 1)].seat

\* trick.startTrick is called by the server but is not among the sources;
\* it is the empty trick of getOrCreateRoom with the leader filled in.
startTrick(leader) == [leaderSeat |-> leader, leadSuit |-> "none", plays |-> <<>>]

\* scoreTeam without the ten-for-two rule
scoreTeamStandardOnly(bid, made, cfg) ==
  IF made >= bid THEN [points |-> bid * 10, bags_add |-> made - bid]
  ELSE [points |-> -(bid * 10), bags_add |-> 0]

\* ------------------------------------------------------------------- scoring
scoreTeam(bid, made, cfg) ==
  IF cfg.ten_for_two_enabled /\ bid >= 10
  THEN IF made >= bid THEN [points |-> 200, bags_add |-> made - bid]
       ELSE [points |-> -200, bags_add |-> 0]
  ELSE IF made >= bid THEN [points |-> bid * 10, bags_add |-> made - bid]
       ELSE [points |-> -(bid * 10), bags_add |-> 0]

RECURSIVE bagsLoop(_, _, _, _)
bagsLoop(newBags, penalty, at, penaltyPts) ==
  IF newBags >= at THEN bagsLoop(newBags - at, penalty - penaltyPts, at, penaltyPts)
  ELSE [bags |-> newBags, penalty |-> penalty]

\* applyBagsPenalty that takes the threshold off once at most
applyBagsPenaltyOnce(bags, cfg) ==
  IF ~cfg.bags_enabled THEN [bags |-> bags, penalty |-> 0]
  ELSE IF bags >= cfg.bags_penalty_at
  THEN [bags |-> bags - cfg.bags_penalty_at, penalty |-> -cfg.bags_penalty_points]
  ELSE [bags |-> bags, penalty |-> 0]

applyBagsPenalty(bags, cfg) ==
  IF ~cfg.bags_enabled THEN [bags |-> bags, penalty |-> 0]
  ELSE bagsLoop(bags, 0, cfg.bags_penalty_at, cfg.bags_penalty_points)

scoreHand(bidA, bidB, madeA, madeB, match, cfg) ==
  LET penalised(rA, rB, pA, pB) ==
        [delta |-> [A |-> rA.points + pA.penalty, B |-> rB.points + pB.penalty],
         bags |-> [A |-> pA.bags, B |-> pB.bags],
         detail |-> [A |-> [bid |-> bidA, made |-> madeA, base |-> rA.points,
                            bags_add |-> rA.bags_add, bag_penalty |-> pA.penalty],
                     B |-> [bid |-> bidB, made |-> madeB, base |-> rB.points,
                            bags_add |-> rB.bags_add, bag_penalty |-> pB.penalty]]]
      scored(rA, rB) ==
        penalised(rA, rB,
          applyBagsPenalty(match.bags.A + (IF cfg.bags_enabled THEN rA.bags_add ELSE 0), cfg),
          applyBagsPenalty(match.bags.B + (IF cfg.bags_enabled THEN rB.bags_add ELSE 0), cfg))
  IN  scored(scoreTeam(bidA, madeA, cfg), scoreTeam(bidB, madeB, cfg))

\* ------------------------------------------------------------------- bidding
\* a handler's return value: the room as the handler left it and "ok" or the
\* error name
Result(r, e) == [room |-> r, error |-> e]

NoNegotiation ==
  [stage |-> "none", choices |-> [A |-> "none", B |-> "none"],
   books_made_team |-> "none", increasing_team |-> "none",
   required_increasing_team_total |-> NoPick, min_total_bid |-> NoPick]

NoPicks == [s \in Seats |-> NoPick]

\* room.bidding = null
NoBidding ==
  [exists |-> FALSE, board |-> 0, min_total_bid |-> 0, picks |-> NoPicks,
   team_totals |-> [A |-> 0, B |-> 0], confirmed |-> [A |-> FALSE, B |-> FALSE],
   lock_order |-> <<"A", "B">>, must_confirm_team |-> "none",
   needs_min_total_resolution |-> FALSE, negotiation |-> NoNegotiation,
   has_min_picks |-> FALSE, min_picks |-> NoPicks, editable_team |-> "none"]

computeMinTotalBidFromBoard(board) == (board * 2) + 3

getBoard(room) == room.match_config.board

\* getMinTotal without the override
getMinTotalFromBoard(room, board) == computeMinTotalBidFromBoard(board)

\* match_config.min_total_bid = NoPick stands for "no override"
getMinTotal(room, board) ==
  IF room.match_config.min_total_bid # NoPick THEN room.match_config.min_total_bid
  ELSE computeMinTotalBidFromBoard(board)

\* the lock order with the dealing team first
lockOrderDealerFirst(dealerSeat) ==
  LET deal == dealingTeamFromDealerSeat(dealerSeat)
      nonDeal == nonDealingTeamFromDealerSeat(dealerSeat)
  IN  IF nonDeal # "none" /\ deal # "none" THEN <<deal, nonDeal>> ELSE <<"A", "B">>

lockOrderFor(dealerSeat) ==
  LET deal == dealingTeamFromDealerSeat(dealerSeat)
      nonDeal == nonDealingTeamFromDealerSeat(dealerSeat)
  IN  IF nonDeal # "none" /\ deal # "none" THEN <<nonDeal, deal>> ELSE <<"A", "B">>

initBidding(room) ==
  LET board == getBoard(room)
      lockOrder == lockOrderFor(room.dealer_seat)
  IN  [exists |-> TRUE, board |-> board, min_total_bid |-> getMinTotal(room, board),
       picks |-> NoPicks, team_totals |-> [A |-> 0, B |-> 0],
       confirmed |-> [A |-> FALSE, B |-> FALSE],
       lock_order |-> lockOrder, must_confirm_team |-> lockOrder[1],
       needs_min_total_resolution |-> FALSE, negotiation |-> NoNegotiation,
       has_min_picks |-> FALSE, min_picks |-> NoPicks, editable_team |-> "none"]

ensureBidding(room) ==
  IF ~room.bidding.exists THEN [room EXCEPT !.bidding = initBidding(room)] ELSE room

\* Number(p ?? 0)
pickOrZero(p) == IF p = NoPick THEN 0 ELSE p

\* recomputeTotals that refreshes the total of team A only
recomputeTotalsTeamAOnly(b) ==
  [b EXCEPT !.team_totals.A = pickOrZero(b.picks[1]) + pickOrZero(b.picks[3])]

recomputeTotals(b) ==
  [b EXCEPT !.team_totals = [A |-> pickOrZero(b.picks[1]) + pickOrZero(b.picks[3]),
                             B |-> pickOrZero(b.picks[2]) + pickOrZero(b.picks[4])]]

totalAll(b) == b.team_totals.A + b.team_totals.B

\* enterNegotiation without the record of the baseline
enterNegotiationNoBaseline(room0) ==
  LET room == ensureBidding(room0)
      b == room.bidding
  IN  [room EXCEPT
        !.phase = "negotiating",
        !.bidding = [b EXCEPT
           !.needs_min_total_resolution = TRUE,
           !.editable_team = "none",
           !.negotiation = [NoNegotiation EXCEPT !.stage = "choose",
                                                 !.min_total_bid = b.min_total_bid],
           !.confirmed = [A |-> FALSE, B |-> FALSE],
           !.must_confirm_team = "none"]]

enterNegotiation(room0) ==
  LET enter(room, b) ==
        [room EXCEPT
          !.phase = "negotiating",
          !.bidding = [b EXCEPT
             !.needs_min_total_resolution = TRUE,
             !.has_min_picks = TRUE,
             !.min_picks = b.picks,
             !.editable_team = "none",
             !.negotiation = [NoNegotiation EXCEPT !.stage = "choose",
                                                   !.min_total_bid = b.min_total_bid],
             !.confirmed = [A |-> FALSE, B |-> FALSE],
             !.must_confirm_team = "none"]]
      ensured(room) == enter(room, room.bidding)
  IN  ensured(ensureBidding(room0))

\* resolveToPlaying without the copy of the team totals into final_bids
resolveToPlayingNoFinalBids(room0) ==
  LET room == ensureBidding(room0)
      b == room.bidding
  IN  [room EXCEPT
        !.phase = "playing",
        !.bidding = [b EXCEPT
           !.needs_min_total_resolution = FALSE,
           !.editable_team = "none",
           !.negotiation.stage = IF b.negotiation.stage # "none"
                                 THEN "resolved_to_play" ELSE "none"]]

resolveToPlaying(room0) ==
  LET resolve(room, b) ==
        [room EXCEPT
          !.final_bids = b.team_totals,
          !.phase = "playing",
          !.bidding = [b EXCEPT
             !.needs_min_total_resolution = FALSE,
             !.editable_team = "none",
             !.negotiation.stage = IF b.negotiation.stage # "none"
                                   THEN "resolved_to_play" ELSE "none"]]
      ensured(room) == resolve(room, room.bidding)
  IN  ensured(ensureBidding(room0))

resolveBooksMade(room0) ==
  LET resolve(room, b) ==
        [room EXCEPT
          !.final_bids = b.team_totals,
          !.phase = "negotiating",
          !.bidding = [b EXCEPT
             !.needs_min_total_resolution = FALSE,
             !.editable_team = "none",
             !.negotiation.stage = IF b.negotiation.stage # "none"
                                   THEN "resolved_books_made" ELSE "none"]]
      ensured(room) == resolve(room, room.bidding)
  IN  ensured(ensureBidding(room0))

\* handleBidSet without the check of the team's confirmed flag
handleBidSetWhileConfirmed(room0, s, v) ==
  LET team == seatToTeam(s)
      set(room, b, stage) ==
        IF v < 0 \/ v > 13 THEN Result(room, "invalid_bid")
        ELSE IF room.phase = "negotiating" /\ stage = "choose"
          THEN Result(room, "negotiation_choose_stage_no_bid_edit")
        ELSE IF room.phase = "negotiating" /\ stage = "one_books_waiting_accept"
                /\ (b.negotiation.increasing_team = "none"
                    \/ team # b.negotiation.increasing_team)
          THEN Result(room, "negotiation_other_team_locked")
        ELSE IF room.phase = "negotiating" /\ b.editable_team # "none"
                /\ b.editable_team # team
          THEN Result(room, "negotiation_other_team_locked")
        ELSE IF room.phase = "negotiating" /\ b.has_min_picks
                /\ v < pickOrZero(b.min_picks[s])
          THEN Result(room, "negotiation_must_increase_or_hold")
        ELSE Result([room EXCEPT !.bidding = recomputeTotals([b EXCEPT !.picks[s] = v])],
                    "ok")
      ensured(room) == set(room, room.bidding, room.bidding.negotiation.stage)
  IN  ensured(ensureBidding(room0))

\* handleBidSet without the gates of the negotiation stages
handleBidSetInAnyStage(room0, s, v) ==
  LET team == seatToTeam(s)
      set(room, b) ==
        IF v < 0 \/ v > 13 THEN Result(room, "invalid_bid")
        ELSE IF room.phase = "negotiating" /\ b.has_min_picks
                /\ v < pickOrZero(b.min_picks[s])
          THEN Result(room, "negotiation_must_increase_or_hold")
        ELSE IF b.confirmed[team] THEN Result(room, "team_already_confirmed")
        ELSE Result([room EXCEPT !.bidding = recomputeTotals([b EXCEPT !.picks[s] = v])],
                    "ok")
      ensured(room) == set(room, room.bidding)
  IN  ensured(ensureBidding(room0))

handleBidSet(room0, s, v) ==
  LET team == seatToTeam(s)
      picked(room, b1) ==
        Result([room EXCEPT !.bidding =
                  IF b1.confirmed.A /\ b1.confirmed.B
                  THEN [b1 EXCEPT !.needs_min_total_resolution =
                                     (totalAll(b1) < b1.min_total_bid)]
                  ELSE b1], "ok")
      set(room, b, stage) ==
        IF v < 0 \/ v > 13 THEN Result(room, "invalid_bid")
        ELSE IF room.phase = "negotiating" /\ stage = "choose"
          THEN Result(room, "negotiation_choose_stage_no_bid_edit")
        ELSE IF room.phase = "negotiating" /\ stage = "one_books_waiting_accept"
                /\ (b.negotiation.increasing_team = "none"
                    \/ team # b.negotiation.increasing_team)
          THEN Result(room, "negotiation_other_team_locked")
        ELSE IF room.phase = "negotiating" /\ b.editable_team # "none"
                /\ b.editable_team # team
          THEN Result(room, "negotiation_other_team_locked")
        ELSE IF room.phase = "negotiating" /\ b.has_min_picks
                /\ v < pickOrZero(b.min_picks[s])
          THEN Result(room, "negotiation_must_increase_or_hold")
        ELSE IF b.confirmed[team] THEN Result(room, "team_already_confirmed")
        ELSE picked(room, recomputeTotals([b EXCEPT !.picks[s] = v]))
      ensured(room) == set(room, room.bidding, room.bidding.negotiation.stage)
  IN  ensured(ensureBidding(room0))

mateSeatOf(s) == IF s = 1 THEN 3 ELSE IF s = 3 THEN 1 ELSE IF s = 2 THEN 4 ELSE 2

\* confirmLocked with a re-lock loop that keeps the old baseline
confirmLockedKeepsBaseline(room, team) ==
  LET b0 == room.bidding
      first == b0.lock_order[1]
      second == b0.lock_order[2]
      b == [b0 EXCEPT !.confirmed[team] = TRUE,
                      !.must_confirm_team = IF team = first THEN second ELSE "none"]
      r1 == [room EXCEPT !.bidding = recomputeTotals(b)]
      t == totalAll(r1.bidding)
  IN  IF b.confirmed.A /\ b.confirmed.B /\ room.phase = "bidding"
      THEN IF t < b.min_total_bid THEN enterNegotiation(r1) ELSE resolveToPlaying(r1)
      ELSE IF b.confirmed.A /\ b.confirmed.B /\ room.phase = "negotiating"
              /\ b.negotiation.stage = "both_increase_relock"
      THEN IF t >= b.min_total_bid THEN resolveToPlaying(r1)
           ELSE [r1 EXCEPT !.bidding =
                   [r1.bidding EXCEPT
                      !.needs_min_total_resolution = TRUE,
                      !.negotiation = [r1.bidding.negotiation EXCEPT
                          !.stage = "choose",
                          !.choices = [A |-> "none", B |-> "none"],
                          !.books_made_team = "none",
                          !.increasing_team = "none",
                          !.required_increasing_team_total = NoPick],
                      !.confirmed = [A |-> FALSE, B |-> FALSE],
                      !.must_confirm_team = "none",
                      !.editable_team = "none"]]
      ELSE [r1 EXCEPT !.bidding.needs_min_total_resolution =
              (r1.bidding.confirmed.A /\ r1.bidding.confirmed.B
               /\ totalAll(r1.bidding) < r1.bidding.min_total_bid)]

\* the part of handleBidConfirm after the team has been locked
confirmLocked(room, team) ==
  LET b0 == room.bidding
      first == b0.lock_order[1]
      second == b0.lock_order[2]
      locked(b, r1, t) ==
        IF b.confirmed.A /\ b.confirmed.B /\ room.phase = "bidding"
        THEN IF t < b.min_total_bid THEN enterNegotiation(r1) ELSE resolveToPlaying(r1)
        ELSE IF b.confirmed.A /\ b.confirmed.B /\ room.phase = "negotiating"
                /\ b.negotiation.stage = "both_increase_relock"
        THEN IF t >= b.min_total_bid THEN resolveToPlaying(r1)
             ELSE [r1 EXCEPT !.bidding =
                     [r1.bidding EXCEPT
                        !.min_picks = r1.bidding.picks,
                        !.has_min_picks = TRUE,
                        !.needs_min_total_resolution = TRUE,
                        !.negotiation = [r1.bidding.negotiation EXCEPT
                            !.stage = "choose",
                            !.choices = [A |-> "none", B |-> "none"],
                            !.books_made_team = "none",
                            !.increasing_team = "none",
                            !.required_increasing_team_total = NoPick],
                        !.confirmed = [A |-> FALSE, B |-> FALSE],
                        !.must_confirm_team = "none",
                        !.editable_team = "none"]]
        ELSE [r1 EXCEPT !.bidding.needs_min_total_resolution =
                (r1.bidding.confirmed.A /\ r1.bidding.confirmed.B
                 /\ totalAll(r1.bidding) < r1.bidding.min_total_bid)]
      totalled(b, r1) == locked(b, r1, totalAll(r1.bidding))
      lock(b) == totalled(b, [room EXCEPT !.bidding = recomputeTotals(b)])
  IN  lock([b0 EXCEPT !.confirmed[team] = TRUE,
                      !.must_confirm_team = IF team = first THEN second ELSE "none"])

\* handleBidConfirm without the check of the team total against board
handleBidConfirmNoBoardCheck(room0, s) ==
  LET room == ensureBidding(room0)
      b == room.bidding
      team == seatToTeam(s)
      myPick == b.picks[s]
      matePick == b.picks[mateSeatOf(s)]
      recomputed == [room EXCEPT !.bidding = recomputeTotals(b)]
  IN  IF room.phase = "negotiating" /\ b.negotiation.stage # "both_increase_relock"
        THEN Result(room, "bid_confirm_not_allowed_in_this_negotiation_stage")
      ELSE IF b.must_confirm_team = "none" \/ team # b.must_confirm_team
        THEN Result(room, "not_your_team_turn_to_confirm")
      ELSE IF myPick = NoPick \/ matePick = NoPick
        THEN Result(room, "both_teammates_must_pick")
      ELSE Result(confirmLocked(recomputed, team), "ok")

handleBidConfirm(room0, s) ==
  LET team == seatToTeam(s)
      confirm(room, b, recomputed) ==
        IF room.phase = "negotiating" /\ b.negotiation.stage # "both_increase_relock"
          THEN Result(room, "bid_confirm_not_allowed_in_this_negotiation_stage")
        ELSE IF b.must_confirm_team = "none" \/ team # b.must_confirm_team
          THEN Result(room, "not_your_team_turn_to_confirm")
        ELSE IF b.picks[s] = NoPick \/ b.picks[mateSeatOf(s)] = NoPick
          THEN Result(room, "both_teammates_must_pick")
        ELSE IF recomputed.bidding.team_totals[team] < b.board
          THEN Result(recomputed, "team_bid_below_board")
        ELSE Result(confirmLocked(recomputed, team), "ok")
      ensured(room) ==
        confirm(room, room.bidding, [room EXCEPT !.bidding = recomputeTotals(room.bidding)])
  IN  ensured(ensureBidding(room0))

\* handleNegotiationChoice that starts the re-lock without a lock order
handleNegotiationChoiceNoLockOrder(room0, seat, choice) ==
  LET team == seatToTeam(seat)
      oneBooks(room, b1, booksTeam, incTeam) ==
        Result([room EXCEPT !.bidding =
          [b1 EXCEPT
             !.negotiation.stage = "one_books_waiting_accept",
             !.negotiation.books_made_team = booksTeam,
             !.negotiation.increasing_team = incTeam,
             !.negotiation.required_increasing_team_total =
                Max(0, b1.min_total_bid - b1.team_totals[booksTeam]),
             !.editable_team = incTeam,
             !.confirmed = [A |-> FALSE, B |-> FALSE],
             !.must_confirm_team = "none"]], "ok")
      bothIncrease(room, chosen, lockOrder) ==
        Result([room EXCEPT !.bidding =
          [chosen EXCEPT
             !.negotiation.stage = "both_increase_relock",
             !.editable_team = "none",
             !.confirmed = [A |-> FALSE, B |-> FALSE]]], "ok")
      choose(room, b, chosen, a, bb, r1) ==
        IF room.phase # "negotiating" THEN Result(room, "not_in_negotiating")
        ELSE IF b.negotiation.stage # "choose"
          THEN Result(room, "negotiation_not_in_choose_stage")
        ELSE IF choice # "books_made" /\ choice # "increase"
          THEN Result(room, "invalid_negotiation_choice")
        ELSE IF a = "none" \/ bb = "none" THEN Result(r1, "ok")
        ELSE IF a = "books_made" /\ bb = "books_made"
          THEN Result(resolveBooksMade(r1), "ok")
        ELSE IF a # bb
          THEN oneBooks(room, recomputeTotals(chosen),
                        IF a = "books_made" THEN "A" ELSE "B",
                        IF a = "books_made" THEN "B" ELSE "A")
        ELSE bothIncrease(room, chosen, lockOrderFor(room.dealer_seat))
      recorded(room, chosen) ==
        choose(room, room.bidding, chosen, chosen.negotiation.choices.A,
               chosen.negotiation.choices.B, [room EXCEPT !.bidding = chosen])
      ensured(room) ==
        recorded(room, [room.bidding EXCEPT !.negotiation.choices[team] = choice])
  IN  ensured(ensureBidding(room0))

handleNegotiationChoice(room0, seat, choice) ==
  LET team == seatToTeam(seat)
      oneBooks(room, b1, booksTeam, incTeam) ==
        Result([room EXCEPT !.bidding =
          [b1 EXCEPT
             !.negotiation.stage = "one_books_waiting_accept",
             !.negotiation.books_made_team = booksTeam,
             !.negotiation.increasing_team = incTeam,
             !.negotiation.required_increasing_team_total =
                Max(0, b1.min_total_bid - b1.team_totals[booksTeam]),
             !.editable_team = incTeam,
             !.confirmed = [A |-> FALSE, B |-> FALSE],
             !.must_confirm_team = "none"]], "ok")
      bothIncrease(room, chosen, lockOrder) ==
        Result([room EXCEPT !.bidding =
          [chosen EXCEPT
             !.negotiation.stage = "both_increase_relock",
             !.editable_team = "none",
             !.confirmed = [A |-> FALSE, B |-> FALSE],
             !.lock_order = lockOrder,
             !.must_confirm_team = lockOrder[1]]], "ok")
      choose(room, b, chosen, a, bb, r1) ==
        IF room.phase # "negotiating" THEN Result(room, "not_in_negotiating")
        ELSE IF b.negotiation.stage # "choose"
          THEN Result(room, "negotiation_not_in_choose_stage")
        ELSE IF choice # "books_made" /\ choice # "increase"
          THEN Result(room, "invalid_negotiation_choice")
        ELSE IF a = "none" \/ bb = "none" THEN Result(r1, "ok")
        ELSE IF a = "books_made" /\ bb = "books_made"
          THEN Result(resolveBooksMade(r1), "ok")
        ELSE IF a # bb
          THEN oneBooks(room, recomputeTotals(chosen),
                        IF a = "books_made" THEN "A" ELSE "B",
                        IF a = "books_made" THEN "B" ELSE "A")
        ELSE bothIncrease(room, chosen, lockOrderFor(room.dealer_seat))
      recorded(room, chosen) ==
        choose(room, room.bidding, chosen, chosen.negotiation.choices.A,
               chosen.negotiation.choices.B, [room EXCEPT !.bidding = chosen])
      ensured(room) ==
        recorded(room, [room.bidding EXCEPT !.negotiation.choices[team] = choice])
  IN  ensured(ensureBidding(room0))

\* handleNegotiationResponse with a decline that goes on to play
handleNegotiationResponseDeclinePlays(room0, seat, accept) ==
  LET room == ensureBidding(room0)
      b == room.bidding
      team == seatToTeam(seat)
      b1 == recomputeTotals(b)
      r1 == [room EXCEPT !.bidding = b1]
      required == pickOrZero(b1.negotiation.required_increasing_team_total)
      incTotal == b1.team_totals[b1.negotiation.increasing_team]
  IN  IF room.phase # "negotiating" THEN Result(room, "not_in_negotiating")
      ELSE IF b.negotiation.stage # "one_books_waiting_accept"
        THEN Result(room, "negotiation_not_waiting_for_accept")
      ELSE IF team # b.negotiation.increasing_team
        THEN Result(room, "only_increasing_team_can_respond")
      ELSE IF ~accept THEN Result(resolveToPlaying(room), "ok")
      ELSE IF incTotal < required THEN Result(r1, "negotiation_increase_not_enough")
      ELSE Result(resolveToPlaying(r1), "ok")

\* handleNegotiationResponse without the check of the required total
handleNegotiationResponseNoCheck(room0, seat, accept) ==
  LET room == ensureBidding(room0)
      b == room.bidding
      team == seatToTeam(seat)
      r1 == [room EXCEPT !.bidding = recomputeTotals(b)]
  IN  IF room.phase # "negotiating" THEN Result(room, "not_in_negotiating")
      ELSE IF b.negotiation.stage # "one_books_waiting_accept"
        THEN Result(room, "negotiation_not_waiting_for_accept")
      ELSE IF team # b.negotiation.increasing_team
        THEN Result(room, "only_increasing_team_can_respond")
      ELSE IF ~accept THEN Result(resolveBooksMade(room), "ok")
      ELSE Result(resolveToPlaying(r1), "ok")

handleNegotiationResponse(room0, seat, accept) ==
  LET team == seatToTeam(seat)
      respond(room, b, b1, r1) ==
        IF room.phase # "negotiating" THEN Result(room, "not_in_negotiating")
        ELSE IF b.negotiation.stage # "one_books_waiting_accept"
          THEN Result(room, "negotiation_not_waiting_for_accept")
        ELSE IF team # b.negotiation.increasing_team
          THEN Result(room, "only_increasing_team_can_respond")
        ELSE IF ~accept THEN Result(resolveBooksMade(room), "ok")
        ELSE IF b1.team_totals[b1.negotiation.increasing_team]
                  < pickOrZero(b1.negotiation.required_increasing_team_total)
          THEN Result(r1, "negotiation_increase_not_enough")
        ELSE Result(resolveToPlaying(r1), "ok")
      totalled(room, b1) == respond(room, room.bidding, b1, [room EXCEPT !.bidding = b1])
      ensured(room) == totalled(room, recomputeTotals(room.bidding))
  IN  ensured(ensureBidding(room0))

\* scoreBooksMadeHand with made taken from the books of the hand
scoreBooksMadeHandFromBooks(room) ==
  LET b == room.bidding
      bidA == b.team_totals.A
      bidB == b.team_totals.B
      res == scoreHand(bidA, bidB, room.books.A, room.books.B, room.match,
                       room.match_config)
  IN  IF ~b.exists THEN Result(room, "no_bidding_state")
      ELSE Result([room EXCEPT
             !.match.score = [A |-> room.match.score.A + res.delta.A,
                              B |-> room.match.score.B + res.delta.B],
             !.match.bags = res.bags], "ok")

\* returns the room with the match score and bags updated
scoreBooksMadeHand(room) ==
  LET b == room.bidding
      bidA == b.team_totals.A
      bidB == b.team_totals.B
      scored(res) ==
        Result([room EXCEPT
          !.match.score = [A |-> room.match.score.A + res.delta.A,
                           B |-> room.match.score.B + res.delta.B],
          !.match.bags = res.bags], "ok")
  IN  IF ~b.exists THEN Result(room, "no_bidding_state")
      ELSE scored(scoreHand(bidA, bidB, bidA, bidB, room.match, room.match_config))

negotiationIsResolvedBooksMade(room) ==
  room.bidding.exists /\ room.bidding.negotiation.stage = "resolved_books_made"

\* -------------------------------------------------------------------- server
\* tricks of a hand: 13 in the source; the room carries the number its
\* specification plays with
tricksPerHand(room) == room.match_config.hand_size

\* books that end the match in a first-hand-bids-itself hand: 10 of the 13
\* tricks in the source, every trick of the hand when a hand is shorter
InstantWinBooks(room) == Min(10, tricksPerHand(room))

\* a timer is set whether or not one is pending
scheduleBotActUnguarded(room) ==
  [room EXCEPT !.botTickScheduled = TRUE, !.botTicksPending = @ + 1]

scheduleBotAct(room) ==
  IF room.botTickScheduled THEN room
  ELSE [room EXCEPT !.botTickScheduled = TRUE, !.botTicksPending = @ + 1]

\* the timer of scheduleBotAct fires: the flag is cleared before maybeBotAct
\* runs
botTimerFires(room) ==
  [room EXCEPT !.botTickScheduled = FALSE, !.botTicksPending = @ - 1]

\* the broadcast changes no state; the follow-up tick is requested
sendState(room) == scheduleBotAct(room)

allSeatedAndReady(room) ==
  \A s \in Seats : (room.seats[s].ws \/ room.seats[s].is_bot) /\ room.seats[s].ready

isRenegeOn(room) == room.match_config.renege_on

\* null when the room has no bidding state
biddingPublicState(room) ==
  IF ~room.bidding.exists THEN [exists |-> FALSE]
  ELSE [exists |-> TRUE,
        picks |-> room.bidding.picks,
        team_totals |-> room.bidding.team_totals,
        confirmed |-> room.bidding.confirmed,
        lock_order |-> room.bidding.lock_order,
        must_confirm_team |-> room.bidding.must_confirm_team,
        needs_min_total_resolution |-> room.bidding.needs_min_total_resolution,
        negotiation |-> room.bidding.negotiation,
        min_total_bid |-> room.bidding.min_total_bid,
        board |-> room.bidding.board]

\* the play objects of room.current_trick as they are serialised: the card
\* object is sent along with its id
publicTrick(room, trick) ==
  [leaderSeat |-> trick.leaderSeat,
   leadSuit |-> trick.leadSuit,
   plays |-> [i \in 1..Len(trick.plays) |->
                [seat |-> trick.plays[i].seat,
                 card_id |-> trick.plays[i].card_id,
                 card |-> CardOf(room.config, trick.plays[i].card_id),
                 had_led_suit_before_play |-> trick.plays[i].had_led_suit_before_play]]]

roomPublicState(room) ==
  [phase |-> room.phase,
   dealer_seat |-> room.dealer_seat,
   turn_seat |-> room.turn_seat,
   trick_index |-> room.trick_index,
   spades_broken |-> room.spades_broken,
   books |-> room.books,
   match |-> [hand_number |-> room.hand_number,
              score |-> room.match.score,
              bags |-> room.match.bags,
              target_score |-> room.match.target_score],
   current_trick |-> publicTrick(room, room.current_trick),
   trick_history |->
     [t \in 1..Len(room.trick_history) |->
        [row |-> room.trick_history[t],
         renege_calls |->
           SelectSeq(room.renege.calls,
                     LAMBDA c : c.hand_number = room.hand_number
                                /\ c.trick_index = room.trick_history[t].trick_index)]],
   config |-> room.config,
   match_config |-> room.match_config,
   bidding |-> biddingPublicState(room),
   renege |-> [adjustment |-> room.renege.adjustment, calls |-> room.renege.calls],
   seats_public |->
     [s \in Seats |-> [occupied |-> room.seats[s].ws \/ room.seats[s].is_bot,
                       is_bot |-> room.seats[s].is_bot,
                       ready |-> room.seats[s].ready]]]

cardEffectiveSuit(room, id) == effectiveSuit(CardOf(room.config, id))

handHasEffectiveSuit(room, hand, suit) ==
  \E i \in 1..Len(hand) : cardEffectiveSuit(room, hand[i]) = suit

handIsAllTrump(room, hand) ==
  Len(hand) > 0 /\ \A i \in 1..Len(hand) : CardOf(room.config, hand[i]).is_trump

isBotSeat(room, seatNum) ==
  seatNum \in Seats /\ room.seats[seatNum].is_bot /\ ~room.seats[seatNum].ws

teamHasHuman(room, team) == \E seat \in teamSeats(team) : room.seats[seat].ws

\* a bot that negotiates whoever its partner is
botCanNegotiateAlways(room, seatNum) == seatToTeam(seatNum) \in Teams

botCanNegotiateForSeat(room, seatNum) == ~teamHasHuman(room, seatToTeam(seatNum))

NoRenege == [calls |-> <<>>, adjustment |-> [A |-> 0, B |-> 0], next_id |-> 1]

applyRenegeDelta(room, team, deltaTricks) ==
  [room EXCEPT !.renege.adjustment[team] = @ + deltaTricks]

\* validatePlayLegality without the follow-suit rule
validatePlayLegalityNoFollow(room, seat, cardId) ==
  IF isRenegeOn(room) THEN "ok"
  ELSE IF room.current_trick.leadSuit # "none" THEN "ok"
  ELSE IF ~room.spades_broken /\ cardEffectiveSuit(room, cardId) = "S"
          /\ ~handIsAllTrump(room, room.hands[seat])
    THEN "cannot_lead_trump_until_broken"
  ELSE "ok"

\* validatePlayLegality without the rule on leading trump
validatePlayLegalityAnyLead(room, seat, cardId) ==
  IF isRenegeOn(room) THEN "ok"
  ELSE IF room.current_trick.leadSuit # "none"
          /\ handHasEffectiveSuit(room, room.hands[seat], room.current_trick.leadSuit)
          /\ cardEffectiveSuit(room, cardId) # room.current_trick.leadSuit
    THEN "must_follow_suit"
  ELSE "ok"

\* validatePlayLegality that refuses a trump lead before spades are broken
\* even from a hand of trumps only
validatePlayLegalityNoTrumpLead(room, seat, cardId) ==
  IF isRenegeOn(room) THEN "ok"
  ELSE IF room.current_trick.leadSuit # "none"
    THEN IF handHasEffectiveSuit(room, room.hands[seat], room.current_trick.leadSuit)
            /\ cardEffectiveSuit(room, cardId) # room.current_trick.leadSuit
         THEN "must_follow_suit" ELSE "ok"
  ELSE IF ~room.spades_broken /\ cardEffectiveSuit(room, cardId) = "S"
    THEN "cannot_lead_trump_until_broken"
  ELSE "ok"

\* the legality check of renege mode off applied in every mode
validatePlayLegalityStrict(room, seat, cardId) ==
  LET hand == room.hands[seat]
      leadSuit == room.current_trick.leadSuit
      legality(effSuit) ==
        IF leadSuit # "none"
          THEN IF handHasEffectiveSuit(room, hand, leadSuit) /\ effSuit # leadSuit
               THEN "must_follow_suit" ELSE "ok"
        ELSE IF ~room.spades_broken /\ effSuit = "S" /\ ~handIsAllTrump(room, hand)
          THEN "cannot_lead_trump_until_broken"
        ELSE "ok"
  IN  legality(cardEffectiveSuit(room, cardId))

validatePlayLegality(room, seat, cardId) ==
  LET hand == room.hands[seat]
      leadSuit == room.current_trick.leadSuit
      legality(effSuit) ==
        IF isRenegeOn(room) THEN "ok"
        ELSE IF leadSuit # "none"
          THEN IF handHasEffectiveSuit(room, hand, leadSuit) /\ effSuit # leadSuit
               THEN "must_follow_suit" ELSE "ok"
        ELSE IF ~room.spades_broken /\ effSuit = "S" /\ ~handIsAllTrump(room, hand)
          THEN "cannot_lead_trump_until_broken"
        ELSE "ok"
  IN  legality(cardEffectiveSuit(room, cardId))

ensurePlayingTurnInitialized(room) ==
  IF room.phase # "playing" THEN room
  ELSE IF room.turn_seat # NoSeat THEN room
  ELSE LET first == leftOfDealer(room.dealer_seat)
       IN  [room EXCEPT !.turn_seat = first, !.current_trick = startTrick(first)]

shouldFirstHandBidItself(room) ==
  room.match_config.first_hand_bids_itself /\ room.hand_number = 1

\* startNewHand that leaves spades_broken as the hand before left it
startNewHandKeepsSpadesBroken(room0, seed) ==
  LET bid(r1) == sendState([r1 EXCEPT !.bidding = initBidding(r1)])
      begin(room, first) ==
        IF shouldFirstHandBidItself(room)
        THEN sendState([room EXCEPT !.phase = "playing",
                                    !.turn_seat = first,
                                    !.current_trick = startTrick(first)])
        ELSE bid([room EXCEPT !.phase = "bidding", !.turn_seat = NoSeat])
      dealt(shuffled, dealerSeat) ==
        begin([room0 EXCEPT
                 !.hand_number = room0.hand_number + 1,
                 !.hand_scored = 0,
                 !.dealer_seat = dealerSeat,
                 !.hands = dealHands(shuffled),
                 !.trick_index = 0,
                 !.current_trick = startTrick(NoSeat),
                 !.trick_history = <<>>,
                 !.books = [A |-> 0, B |-> 0],
                 !.final_bids = [A |-> NoPick, B |-> NoPick],
                 !.bidding = NoBidding,
                 !.renege = NoRenege],
              leftOfDealer(dealerSeat))
      cut(shuffled) == dealt(shuffled, determineFirstDealerSeat(shuffled))
  IN  cut(shuffleDeck(modelDeck(room0.config, tricksPerHand(room0)), seed))

\* seed selects the outcome of the shuffle
startNewHand(room0, seed) ==
  LET bid(r1) == sendState([r1 EXCEPT !.bidding = initBidding(r1)])
      begin(room, first) ==
        IF shouldFirstHandBidItself(room)
        THEN sendState([room EXCEPT !.phase = "playing",
                                    !.turn_seat = first,
                                    !.current_trick = startTrick(first)])
        ELSE bid([room EXCEPT !.phase = "bidding", !.turn_seat = NoSeat])
      dealt(shuffled, dealerSeat) ==
        begin([room0 EXCEPT
                 !.hand_number = room0.hand_number + 1,
                 !.hand_scored = 0,
                 !.dealer_seat = dealerSeat,
                 !.hands = dealHands(shuffled),
                 !.trick_index = 0,
                 !.current_trick = startTrick(NoSeat),
                 !.trick_history = <<>>,
                 !.spades_broken = FALSE,
                 !.books = [A |-> 0, B |-> 0],
                 !.final_bids = [A |-> NoPick, B |-> NoPick],
                 !.bidding = NoBidding,
                 !.renege = NoRenege],
              leftOfDealer(dealerSeat))
      cut(shuffled) == dealt(shuffled, determineFirstDealerSeat(shuffled))
  IN  cut(shuffleDeck(modelDeck(room0.config, tricksPerHand(room0)), seed))

\* the terminal checks in the other order: the target score first
endHandTargetScoreFirst(room0, seed) ==
  LET room == [room0 EXCEPT !.hand_scored = @ + 1]
      firstHandAuto == room.hand_number = 1 /\ room.match_config.first_hand_bids_itself
      target == room.match.target_score
  IN  IF room.match.score.A >= target \/ room.match.score.B >= target
      THEN [room EXCEPT !.match_complete = "target_score"]
      ELSE IF firstHandAuto /\ (room.books.A >= InstantWinBooks(room)
                                \/ room.books.B >= InstantWinBooks(room))
      THEN [room EXCEPT !.match_complete = "first_hand_10plus_books"]
      ELSE startNewHand(room, seed)

\* the two broadcasts hand_complete / hand_scored, then the terminal checks
endHandAndMaybeStartNext(room0, seed) ==
  LET room == [room0 EXCEPT !.hand_scored = @ + 1]
      firstHandAuto == room.hand_number = 1 /\ room.match_config.first_hand_bids_itself
      target == room.match.target_score
  IN  IF firstHandAuto /\ (room.books.A >= InstantWinBooks(room)
                           \/ room.books.B >= InstantWinBooks(room))
      THEN [room EXCEPT !.match_complete = "first_hand_10plus_books"]
      ELSE IF room.match.score.A >= target \/ room.match.score.B >= target
      THEN [room EXCEPT !.match_complete = "target_score"]
      ELSE startNewHand(room, seed)

maybeStartFromLobby(room, seed) ==
  IF room.phase # "lobby" THEN room
  ELSE IF ~allSeatedAndReady(room) THEN room
  ELSE startNewHand(room, seed)

\* type === 'seat_choose' for a free seat; a taken seat is refused
seatChoose(room, wanted) ==
  IF room.seats[wanted].is_bot \/ room.seats[wanted].ws THEN room
  ELSE sendState([room EXCEPT !.seats[wanted].ws = TRUE, !.seats[wanted].ready = FALSE])

\* type === 'ready_set'
readySet(room, me, ready, seed) ==
  maybeStartFromLobby(sendState([room EXCEPT !.seats[me].ready = ready]), seed)

maybeAutoResolveNegotiation(room, seed) ==
  LET ended(r) == IF r.error # "ok" THEN room ELSE endHandAndMaybeStartNext(r.room, seed)
  IN  IF room.phase # "negotiating" THEN room
      ELSE IF negotiationIsResolvedBooksMade(room) THEN ended(scoreBooksMadeHand(room))
      ELSE room

\* the hand scored on the raw books, without the renege ledger
scorePlayedHandRawBooks(room) ==
  LET res == scoreHand(pickOrZero(room.final_bids.A), pickOrZero(room.final_bids.B),
                       room.books.A, room.books.B, room.match, room.match_config)
  IN  [room EXCEPT
         !.match.score = [A |-> room.match.score.A + res.delta.A,
                          B |-> room.match.score.B + res.delta.B],
         !.match.bags = res.bags]

scorePlayedHand(room) ==
  LET bidA == pickOrZero(room.final_bids.A)
      bidB == pickOrZero(room.final_bids.B)
      scored(res) ==
        [room EXCEPT
          !.match.score = [A |-> room.match.score.A + res.delta.A,
                           B |-> room.match.score.B + res.delta.B],
          !.match.bags = res.bags]
  IN  scored(scoreHand(bidA, bidB,
                       room.books.A + room.renege.adjustment.A,
                       room.books.B + room.renege.adjustment.B,
                       room.match, room.match_config))

RemoveAt(seq, idx) == SubSeq(seq, 1, idx - 1) \o SubSeq(seq, idx + 1, Len(seq))

\* had_led_suit_before_play is "null" for the lead, else "true" / "false"
playCardForSeat(room0, mySeat, cardId, seed) ==
  LET scored(archived) ==
        IF archived.hand_number = 1 /\ archived.match_config.first_hand_bids_itself
        THEN [archived EXCEPT
                !.match.score =
                   [A |-> archived.match.score.A
                            + (archived.books.A + archived.renege.adjustment.A) * 10,
                    B |-> archived.match.score.B
                            + (archived.books.B + archived.renege.adjustment.B) * 10]]
        ELSE scorePlayedHand(archived)
      trickDone(archived, winnerSeat) ==
        IF Len(archived.trick_history) >= tricksPerHand(archived)
        THEN Result(endHandAndMaybeStartNext(scored(archived), seed), "ok")
        ELSE Result(sendState([archived EXCEPT
                                 !.trick_index = @ + 1,
                                 !.current_trick = startTrick(winnerSeat),
                                 !.turn_seat = winnerSeat]), "ok")
      row(room, played, trickNow, winnerSeat) ==
        [trick_index |-> played.trick_index,
         leader_seat |-> trickNow.leaderSeat,
         lead_suit |-> trickNow.leadSuit,
         winner_seat |-> winnerSeat,
         winner_team |-> teamForSeat(winnerSeat),
         plays |-> [i \in 1..Len(trickNow.plays) |->
            [seat |-> trickNow.plays[i].seat,
             card_id |-> trickNow.plays[i].card_id,
             play_index |-> i - 1,
             had_led_suit_before_play |-> trickNow.plays[i].had_led_suit_before_play,
             played_eff_suit |-> cardEffectiveSuit(room, trickNow.plays[i].card_id)]]]
      archive(room, played, trickNow, winnerSeat) ==
        trickDone([played EXCEPT
                     !.books[teamForSeat(winnerSeat)] = @ + 1,
                     !.trick_history = Append(@, row(room, played, trickNow, winnerSeat))],
                  winnerSeat)
      placed(room, played, trickNow) ==
        IF Len(trickNow.plays) < 4
        THEN Result(sendState([played EXCEPT !.turn_seat = nextSeatClockwise(mySeat)]),
                    "ok")
        ELSE archive(room, played, trickNow, determineTrickWinner(room.config, trickNow))
      put(room, hand, idx, card, trickNow) ==
        placed(room,
               [room EXCEPT
                  !.hands[mySeat] = RemoveAt(hand, idx),
                  !.current_trick = trickNow,
                  !.spades_broken = room.spades_broken \/ card.is_trump],
               trickNow)
      \* had_led_suit_before_play is "null" for the lead, else "true" / "false"
      hadLedSuitBeforePlay(room, hand, leadSuitNow) ==
        IF leadSuitNow = "none" THEN "null"
        ELSE IF handHasEffectiveSuit(room, hand, leadSuitNow) THEN "true" ELSE "false"
      trickWith(room, hand, card, ct) ==
        [leaderSeat |-> IF ct.leaderSeat = NoSeat THEN mySeat ELSE ct.leaderSeat,
         leadSuit |-> IF ct.leadSuit = "none" THEN effectiveSuit(card) ELSE ct.leadSuit,
         plays |-> Append(ct.plays,
                     [seat |-> mySeat, card_id |-> cardId,
                      had_led_suit_before_play |->
                         hadLedSuitBeforePlay(room, hand, ct.leadSuit)])]
      play(room, hand, idx, legal, card) ==
        IF room.turn_seat # mySeat THEN Result(room, "not_your_turn")
        ELSE IF idx = 0 THEN Result(room, "card_not_in_hand")
        ELSE IF legal # "ok" THEN Result(room, legal)
        ELSE put(room, hand, idx, card, trickWith(room, hand, card, room.current_trick))
      initialized(room) ==
        play(room, room.hands[mySeat], IndexOf(room.hands[mySeat], cardId),
             validatePlayLegality(room, mySeat, cardId), CardOf(room.config, cardId))
  IN  IF room0.phase # "playing" THEN Result(room0, "not_in_playing")
      ELSE initialized(ensurePlayingTurnInitialized(room0))

\* a call that counts only the off-suit play, not what the hand held
renegeConfirmedWhenOffSuit(accusedPlay, leadSuit) ==
  accusedPlay.played_eff_suit # leadSuit

\* hadLed && isOffSuit
renegeConfirmed(accusedPlay, leadSuit) ==
  /\ accusedPlay.had_led_suit_before_play = "true"
  /\ accusedPlay.played_eff_suit # leadSuit

\* a count of the confirmed calls only
accuserTeamCallsConfirmed(calls, handNumber, accTeam) ==
  Cardinality({i \in 1..Len(calls) : /\ calls[i].hand_number = handNumber
                                     /\ calls[i].accuser_team = accTeam
                                     /\ calls[i].confirmed})

\* room.renege.calls.filter(...).length
accuserTeamCalls(calls, handNumber, accTeam) ==
  Cardinality({i \in 1..Len(calls) : /\ calls[i].hand_number = handNumber
                                     /\ calls[i].accuser_team = accTeam})

\* a search for an earlier call on the same trick and seat that ignores the
\* play index (never true in a log of valid calls of one accusing team)
existingCallByOtherTeam(calls, handNumber, trickIndex, accusedSeat, pi) ==
  \E i \in 1..Len(calls) :
    /\ calls[i].hand_number = handNumber
    /\ calls[i].trick_index = trickIndex
    /\ calls[i].accused_seat = accusedSeat
    /\ calls[i].play_index # pi

\* room.renege.calls.find(...)
existingCall(calls, handNumber, trickIndex, accusedSeat, pi) ==
  \E i \in 1..Len(calls) :
    /\ calls[i].hand_number = handNumber
    /\ calls[i].trick_index = trickIndex
    /\ calls[i].accused_seat = accusedSeat
    /\ calls[i].play_index = pi

\* payload = [accused_seat, hand_number, trick_index, play_index]
validateAndApplyRenegeCall(room, accSeat, payload) ==
  LET accusedSeat == payload.accused_seat
      handNumber == payload.hand_number
      trickIndex == payload.trick_index
      pi == payload.play_index
      accTeam == seatToTeam(accSeat)
      accusedTeam == seatToTeam(accusedSeat)
      calls == room.renege.calls
      accTeamCalls == accuserTeamCalls(calls, handNumber, accTeam)
      rows == {i \in 1..Len(room.trick_history) :
                 room.trick_history[i].trick_index = trickIndex}
      trickRow == room.trick_history[CHOOSE i \in rows : \A j \in rows : i <= j]
      existing == existingCall(calls, handNumber, trickIndex, accusedSeat, pi)
      accusedPlay == trickRow.plays[pi + 1]
      confirmedRenege == renegeConfirmed(accusedPlay, trickRow.lead_suit)
      deltaAccuser == IF confirmedRenege THEN RenegeDelta ELSE -RenegeDelta
      deltaAccused == -deltaAccuser
      applied == applyRenegeDelta(applyRenegeDelta(room, accTeam, deltaAccuser),
                                  accusedTeam, deltaAccused)
      record == [id |-> room.renege.next_id,
                 hand_number |-> handNumber,
                 trick_index |-> trickIndex,
                 accuser_seat |-> accSeat,
                 accuser_team |-> accTeam,
                 accused_seat |-> accusedSeat,
                 accused_team |-> accusedTeam,
                 play_index |-> pi,
                 lead_suit |-> trickRow.lead_suit,
                 played_eff_suit |-> accusedPlay.played_eff_suit,
                 had_led_suit_before_play |-> accusedPlay.had_led_suit_before_play,
                 confirmed |-> confirmedRenege]
  IN  IF room.phase # "playing" THEN Result(room, "not_in_playing")
      ELSE IF ~isRenegeOn(room) THEN Result(room, "renege_calls_disabled_when_renege_off")
      ELSE IF Len(room.trick_history) >= tricksPerHand(room)
        THEN Result(room, "hand_already_complete")
      ELSE IF accTeam = accusedTeam THEN Result(room, "cannot_accuse_own_team")
      ELSE IF handNumber # room.hand_number THEN Result(room, "invalid_hand_number")
      ELSE IF accTeamCalls >= MaxRenegeCallsPerTeam
        THEN Result(room, "renege_call_limit_reached_for_team")
      ELSE IF trickIndex < 0 \/ trickIndex > tricksPerHand(room) - 1
        THEN Result(room, "invalid_trick_index")
      ELSE IF rows = {} THEN Result(room, "trick_not_found_or_not_completed")
      ELSE IF trickRow.lead_suit = "none" THEN Result(room, "trick_missing_lead_suit")
      ELSE IF Len(trickRow.plays) # 4 THEN Result(room, "trick_incomplete")
      ELSE IF pi < 0 \/ pi > 3 THEN Result(room, "invalid_play_index")
      ELSE IF existing THEN Result(room, "renege_already_called_for_this_target")
      ELSE IF accusedPlay.seat # accusedSeat
        THEN Result(room, "play_index_does_not_match_accused_seat")
      ELSE Result([applied EXCEPT !.renege.calls = Append(@, record),
                                  !.renege.next_id = @ + 1], "ok")

\* ---------------------------------------------------------------------- bots
cardPowerScore(c) ==
  IF c.is_joker \/ c.rank = "JOKER" THEN 6
  ELSE IF c.rank = "2" THEN 4
  ELSE IF c.is_trump THEN 2
  ELSE 1

RECURSIVE handPower(_, _, _)
handPower(room, hand, i) ==
  IF i > Len(hand) THEN 0
  ELSE cardPowerScore(CardOf(room.config, hand[i])) + handPower(room, hand, i + 1)

chooseBid(room, seat, hand) ==
  LET power == handPower(room, hand, 1)
      trumpCount == Cardinality({i \in 1..Len(hand) : CardOf(room.config, hand[i]).is_trump})
      bid == 2 + (power \div 10) + (IF trumpCount >= 6 THEN 1 ELSE 0)
  IN  Max(1, Min(13, bid))

chooseNegotiationChoice(room, myTeam, negotiation) ==
  LET required == pickOrZero(negotiation.required_increasing_team_total)
      myTotal == room.bidding.team_totals[myTeam]
  IN  IF negotiation.increasing_team = myTeam /\ required # 0 /\ required - myTotal <= 1
      THEN "increase" ELSE "books_made"

chooseNegotiationResponse(room, myTeam, negotiation) ==
  negotiation.increasing_team = myTeam

\* the bot's ordering key in the playing branch of maybeBotAct
botCardPriority(c) ==
  (IF c.is_trump THEN 10 ELSE 0) + (IF c.is_joker \/ c.rank = "JOKER" THEN 100 ELSE 0)
    + (IF c.rank = "2" THEN 50 ELSE 0)

\* Array.prototype.sort is stable: equal keys keep their order
RECURSIVE sortByPriority(_, _)
sortByPriority(room, ids) ==
  LET least(key) == CHOOSE i \in 1..Len(ids) :
                      /\ \A j \in 1..Len(ids) : key[i] <= key[j]
                      /\ \A j \in 1..(i - 1) : key[j] > key[i]
      first(m) == <<ids[m]>> \o sortByPriority(room, RemoveAt(ids, m))
  IN  IF Len(ids) = 0 THEN <<>>
      ELSE first(least([i \in 1..Len(ids) |->
                          botCardPriority(CardOf(room.config, ids[i]))]))

botCandidates(room, hand) ==
  LET leadSuit == room.current_trick.leadSuit
      follows(id) == cardEffectiveSuit(room, id) = leadSuit
      nonTrump(id) == cardEffectiveSuit(room, id) # "S"
      among(follow, plain) ==
        IF ~isRenegeOn(room)
        THEN IF leadSuit # "none"
             THEN IF Len(follow) > 0 THEN follow ELSE hand
             ELSE IF ~room.spades_broken /\ Len(plain) > 0 THEN plain ELSE hand
        ELSE IF leadSuit # "none" /\ Len(follow) > 0 THEN follow ELSE hand
  IN  among(SelectSeq(hand, follows), SelectSeq(hand, nonTrump))

botBidStep(room, s) ==
  LET sent(r) == IF r.error = "ok" THEN sendState(r.room) ELSE r.room
  IN  IF ~isBotSeat(room, s) THEN room
      ELSE sent(handleBidSet(room, s, Max(1, Min(13, chooseBid(room, s, room.hands[s])))))

botConfirmStep(room, s) ==
  LET sent(r) == IF r.error = "ok" THEN sendState(ensurePlayingTurnInitialized(r.room))
                 ELSE r.room
  IN  IF ~isBotSeat(room, s) THEN room
      ELSE sent(handleBidConfirm(room, s))

botChoiceStep(room, s) ==
  LET myTeam == seatToTeam(s)
      sent(r) == IF r.error = "ok" THEN sendState(r.room) ELSE r.room
  IN  IF ~isBotSeat(room, s) \/ ~botCanNegotiateForSeat(room, s) THEN room
      ELSE sent(handleNegotiationChoice(room, s,
                  chooseNegotiationChoice(room, myTeam, room.bidding.negotiation)))

botResponseStep(room, s) ==
  LET myTeam == seatToTeam(s)
      sent(r) == IF r.error = "ok" THEN sendState(ensurePlayingTurnInitialized(r.room))
                 ELSE r.room
  IN  IF ~isBotSeat(room, s) \/ ~botCanNegotiateForSeat(room, s) THEN room
      ELSE sent(handleNegotiationResponse(room, s,
                  chooseNegotiationResponse(room, myTeam, room.bidding.negotiation)))

\* for (const s of [1,2,3,4]) step(room, s)
forEachSeat(step(_, _), room) == step(step(step(step(room, 1), 2), 3), 4)

maybeBotAct(room0, seed) ==
  LET done(r) == scheduleBotAct([r EXCEPT !.botLoopGuard = 0])
      \* bidding
      bids(room) ==
        done(forEachSeat(botConfirmStep, forEachSeat(botBidStep, ensureBidding(room))))
      \* negotiating
      responses(afterChoices) ==
        IF afterChoices.bidding.negotiation.stage = "one_books_waiting_accept"
        THEN forEachSeat(botResponseStep, afterChoices) ELSE afterChoices
      negotiates(room) ==
        done(maybeAutoResolveNegotiation(
               responses(IF room.bidding.negotiation.stage = "choose"
                         THEN forEachSeat(botChoiceStep, room) ELSE room), seed))
      \* playing
      again(r, turn, candidates) ==
        IF r.error = "ok" THEN r.room
        ELSE IF Len(candidates) >= 2
             THEN playCardForSeat(r.room, turn, candidates[2], seed).room
             ELSE r.room
      attempt(ready, turn, candidates) ==
        done(again(playCardForSeat(ready, turn, candidates[1], seed), turn, candidates))
      plays(ready, turn, hand) ==
        IF ~isBotSeat(ready, turn) THEN [ready EXCEPT !.botLoopGuard = 0]
        ELSE IF Len(hand) = 0 THEN ready
        ELSE attempt(ready, turn, sortByPriority(ready, botCandidates(ready, hand)))
      initialized(ready) == plays(ready, ready.turn_seat, ready.hands[ready.turn_seat])
      act(room) ==
        IF room.phase = "bidding" THEN bids(room)
        ELSE IF room.phase = "negotiating"
          THEN IF room.bidding.negotiation.stage = "none" THEN room
               ELSE negotiates(room)
        ELSE IF room.phase = "playing"
          THEN initialized(ensurePlayingTurnInitialized(room))
        ELSE [room EXCEPT !.botLoopGuard = 0]
  IN  IF room0.phase = "lobby" \/ room0.phase = "complete" THEN room0
      ELSE IF room0.botLoopGuard > BotLoopGuardMax THEN [room0 EXCEPT !.botLoopGuard = 0]
      ELSE act([room0 EXCEPT !.botLoopGuard = @ + 1])

\* --------------------------------------------------------------------- state
\* room: the room object.  env: what the clients have done so far that the
\* bounds below limit (disconnects, bidding messages sent out of phase).
VARIABLES room, env

vars == <<room, env>>

EmptySeat == [ws |-> FALSE, ready |-> FALSE, is_bot |-> FALSE]

\* getOrCreateRoom, with the configuration the room is created with
newRoom(config, matchConfig) ==
  [phase |-> "lobby",
   seats |-> [s \in Seats |-> EmptySeat],
   dealer_seat |-> NoSeat,
   turn_seat |-> NoSeat,
   trick_index |-> 0,
   spades_broken |-> FALSE,
   books |-> [A |-> 0, B |-> 0],
   match |-> [score |-> [A |-> 0, B |-> 0], bags |-> [A |-> 0, B |-> 0],
              target_score |-> matchConfig.target_score],
   hand_number |-> 0,
   current_trick |-> startTrick(NoSeat),
   trick_history |-> <<>>,
   renege |-> NoRenege,
   config |-> config,
   match_config |-> matchConfig,
   hands |-> [s \in Seats |-> <<>>],
   bidding |-> NoBidding,
   final_bids |-> [A |-> NoPick, B |-> NoPick],
   botTickScheduled |-> FALSE,
   botTicksPending |-> 0,
   botLoopGuard |-> 0,
   match_complete |-> "none",
   hand_scored |-> 0]

DefaultDeckConfig == [big_joker |-> "color", big_deuce |-> "D2"]

\* match_config of getOrCreateRoom; the target is lowered so that a match
\* of MaxHands hands can reach it
BaseMatchConfig ==
  [target_score |-> 50, board |-> 4, first_hand_bids_itself |-> FALSE,
   renege_on |-> TRUE, bot_takeover_on_disconnect |-> FALSE, min_total_bid |-> 11,
   hand_size |-> HandSize, shuffles |-> NumShuffles,
   bags_enabled |-> FALSE, bags_penalty_at |-> 10, bags_penalty_points |-> 100,
   ten_for_two_enabled |-> TRUE]

MatchConfigs ==
  {BaseMatchConfig,
   [BaseMatchConfig EXCEPT !.first_hand_bids_itself = TRUE,
                           !.renege_on = FALSE,
                           !.bot_takeover_on_disconnect = TRUE]}

Init ==
  /\ \E mc \in MatchConfigs : room = newRoom(DefaultDeckConfig, mc)
  /\ env = [stray |-> 0]

\* ------------------------------------------------------------------ handlers
\* Every action is one message handler (or the timer callback) run to
\* completion.  Messages are handled while the match is within MaxHands
\* hands; a re-scoring beyond MaxScore is not followed.
Becomes(r) ==
  /\ room.hand_number <= MaxHands
  /\ r.match.score.A <= MaxScore /\ r.match.score.B <= MaxScore
  /\ room' = r

\* the outcomes of a shuffle the room is played with
Seeds(r) == 0..(r.match_config.shuffles - 1)
BidInputs == {1, MaxBid}
CardInputs == {ModelCardIds[i] : i \in 1..DeckSize(tricksPerHand(room))}
\* seats the administrator puts bots on
BotSeatInputs == {5 - k : k \in 1..MaxBots}

\* F(seed) is the room a handler leaves; the shuffle is drawn only if the
\* handler starts a hand
AnyShuffle(F(_)) ==
  IF F(0).hand_number = room.hand_number THEN Becomes(F(0))
  ELSE \E seed \in Seeds(room) : Becomes(F(seed))

\* seat of the connection that sent the message
Seated(s) == room.seats[s].ws

InBiddingPhases == room.phase \in {"bidding", "negotiating"}

\* a bidding message: counted as stray when it arrives out of phase
BiddingMessage ==
  IF InBiddingPhases THEN UNCHANGED env
  ELSE /\ env.stray < MaxStray
       /\ env' = [env EXCEPT !.stray = @ + 1]

\* type === 'seat_choose', from a connection that has no seat yet
SeatChoose(wanted) ==
  /\ UNCHANGED env
  /\ Becomes(seatChoose(room, wanted))

\* type === 'ready_set'
ReadySet(me, ready) ==
  /\ Seated(me)
  /\ UNCHANGED env
  /\ LET F(seed) == readySet(room, me, ready, seed)
     IN  AnyShuffle(F)

\* type === 'bot_add'
BotAdd(me, wanted) ==
  /\ Seated(me)
  /\ UNCHANGED env
  /\ IF room.phase # "lobby" \/ me # 1 \/ room.seats[wanted].ws THEN Becomes(room)
     ELSE LET F(seed) == maybeStartFromLobby(
                           sendState([room EXCEPT !.seats[wanted].is_bot = TRUE,
                                                  !.seats[wanted].ready = TRUE]), seed)
          IN  AnyShuffle(F)

\* type === 'bid_set'
BidSet(me, bid) ==
  /\ Seated(me)
  /\ BiddingMessage
  /\ LET handled(r) == IF r.error # "ok" THEN Becomes(r.room)
                       ELSE Becomes(sendState(r.room))
     IN  IF bid < 1 \/ bid > 13 THEN Becomes(room)
         ELSE handled(handleBidSet(room, me, bid))

\* type === 'bid_confirm'
BidConfirm(me) ==
  /\ Seated(me)
  /\ BiddingMessage
  /\ LET handled(r) ==
           LET F(seed) == maybeAutoResolveNegotiation(
                            sendState(ensurePlayingTurnInitialized(r.room)), seed)
           IN  IF r.error # "ok" THEN Becomes(r.room) ELSE AnyShuffle(F)
     IN  handled(handleBidConfirm(room, me))

\* type === 'negotiation_choice'
NegotiationChoice(me, choice) ==
  /\ Seated(me)
  /\ BiddingMessage
  /\ LET handled(r) ==
           LET F(seed) == maybeAutoResolveNegotiation(sendState(r.room), seed)
           IN  IF r.error # "ok" THEN Becomes(r.room) ELSE AnyShuffle(F)
     IN  handled(handleNegotiationChoice(room, me, choice))

\* type === 'negotiation_response'
NegotiationResponse(me, accept) ==
  /\ Seated(me)
  /\ BiddingMessage
  /\ LET handled(r) ==
           LET F(seed) == maybeAutoResolveNegotiation(
                            sendState(ensurePlayingTurnInitialized(r.room)), seed)
           IN  IF r.error # "ok" THEN Becomes(r.room) ELSE AnyShuffle(F)
     IN  handled(handleNegotiationResponse(room, me, accept))

\* type === 'play_card'
PlayCard(me, cardId) ==
  /\ Seated(me)
  /\ UNCHANGED env
  /\ LET F(seed) == playCardForSeat(room, me, cardId, seed).room
     IN  AnyShuffle(F)

\* type === 'renege_call'
RenegeCall(me, payload) ==
  /\ Seated(me)
  /\ UNCHANGED env
  /\ LET handled(r) == IF r.error # "ok" THEN Becomes(r.room)
                       ELSE Becomes(sendState(r.room))
     IN  handled(validateAndApplyRenegeCall(room, me, payload))

\* Close without the check for an active phase
CloseInAnyPhase(me) ==
  /\ Seated(me)
  /\ UNCHANGED env
  /\ LET cleared == [room EXCEPT !.seats[me].ws = FALSE, !.seats[me].ready = FALSE]
     IN  IF ~room.match_config.bot_takeover_on_disconnect
         THEN Becomes(sendState([cleared EXCEPT !.phase = "complete",
                                                !.match_complete = "forfeit_disconnect"]))
         ELSE Becomes(scheduleBotAct(sendState(
                [cleared EXCEPT !.seats[me].is_bot = TRUE, !.seats[me].ready = TRUE])))

\* ws.on('close') of the connection seated at me
Close(me) ==
  /\ Seated(me)
  /\ UNCHANGED env
  /\ LET cleared == [room EXCEPT !.seats[me].ws = FALSE, !.seats[me].ready = FALSE]
     IN  IF room.phase \notin {"bidding", "negotiating", "playing"}
         THEN Becomes(sendState(cleared))
         ELSE IF ~room.match_config.bot_takeover_on_disconnect
         THEN Becomes(sendState([cleared EXCEPT !.phase = "complete",
                                                !.match_complete = "forfeit_disconnect"]))
         ELSE Becomes(scheduleBotAct(sendState(
                [cleared EXCEPT !.seats[me].is_bot = TRUE, !.seats[me].ready = TRUE])))

\* the setTimeout callback of scheduleBotAct
BotTick ==
  /\ room.botTicksPending > 0
  /\ UNCHANGED env
  /\ LET F(seed) == maybeBotAct(botTimerFires(room), seed)
     IN  AnyShuffle(F)

\* a call names a play of the current hand or of the one before it; outside
\* the playing phase the handler rejects the call before reading the payload
RenegePayloads ==
  IF room.phase = "playing"
  THEN [accused_seat : Seats, hand_number : {room.hand_number - 1, room.hand_number},
        trick_index : 0..(tricksPerHand(room) - 1), play_index : 0..3]
  ELSE {[accused_seat |-> 1, hand_number |-> room.hand_number,
         trick_index |-> 0, play_index |-> 0]}

Next ==
  \/ \E wanted \in Seats : SeatChoose(wanted)
  \/ \E me \in Seats : ReadySet(me, TRUE)
  \/ \E me \in Seats, wanted \in BotSeatInputs : BotAdd(me, wanted)
  \/ \E me \in Seats, bid \in BidInputs : BidSet(me, bid)
  \/ \E me \in Seats : BidConfirm(me)
  \/ \E me \in Seats, choice \in {"books_made", "increase"} : NegotiationChoice(me, choice)
  \/ \E me \in Seats, accept \in BOOLEAN : NegotiationResponse(me, accept)
  \/ \E me \in Seats, cardId \in CardInputs : PlayCard(me, cardId)
  \/ \E me \in Seats, payload \in RenegePayloads : RenegeCall(me, payload)
  \/ \E me \in 1..MaxCloses : Close(me)
  \/ BotTick

Spec == Init /\ [][Next]_vars

\* ---------------------------------------------------------------------- play
\* The playing phase with hands of PlayHandSize tricks: the first hand
\* bids itself, so the hand is played as soon as the four seats are ready.  Seats
\* 1 and 2 are taken by clients, the administrator at seat 1 puts bots on
\* seats 3 and 4.  SpecPlay plays with renege mode off and without
\* renege calls; SpecRenege and SpecCalls add the renege calls of one client,
\* env.accuser.
PlayMatchConfig(on, shuffles) ==
  [BaseMatchConfig EXCEPT !.first_hand_bids_itself = TRUE,
                          !.hand_size = PlayHandSize,
                          !.shuffles = shuffles,
                          !.renege_on = on]

ClientSeats == {1, 2}
PlayBotSeats == {3, 4}

\* the cards a client tries to play: those of its hand and one more
CardsToPlay(me) ==
  {room.hands[me][i] : i \in 1..Len(room.hands[me])} \cup {ModelCardIds[1]}

\* calls on the plays of tricks 0..last of the current hand by the partner
\* and the opponents, a call that names a trick the hand does not have, and
\* calls that name the hand before
RenegePayloadsUpTo(last) ==
  IF room.phase = "playing"
  THEN [accused_seat : Seats \ {env.accuser}, hand_number : {room.hand_number},
        trick_index : 0..last, play_index : 0..3]
       \cup {[accused_seat |-> s, hand_number |-> room.hand_number - 1,
              trick_index |-> 0, play_index |-> 0] : s \in Seats}
       \cup {[accused_seat |-> 5 - env.accuser, hand_number |-> room.hand_number,
              trick_index |-> tricksPerHand(room), play_index |-> 0]}
  ELSE {[accused_seat |-> 1, hand_number |-> room.hand_number,
         trick_index |-> 0, play_index |-> 0]}

InitPlay ==
  /\ room = newRoom(DefaultDeckConfig, PlayMatchConfig(FALSE, PlayShuffles))
  /\ env = [stray |-> 0]

NextPlay ==
  \/ \E wanted \in ClientSeats : SeatChoose(wanted)
  \/ \E me \in ClientSeats : ReadySet(me, TRUE)
  \/ \E wanted \in PlayBotSeats : BotAdd(1, wanted)
  \/ \E me \in ClientSeats : \E cardId \in CardsToPlay(me) : PlayCard(me, cardId)
  \/ BotTick

SpecPlay == InitPlay /\ [][NextPlay]_vars

\* The playing phase with renege mode off under weak fairness of the timer
\* callback and of the play of the client on turn: a timer that stays set
\* fires (setTimeout of 50 ms), and a client that stays on turn sends a play
\* that is accepted.  Each condition is WF_vars of its action with ENABLED
\* written as the state predicate that enables it in a hand that has tricks
\* left: a timer is pending, or a connected client is on turn.
SpecPlayFair ==
  /\ SpecPlay
  /\ \/ []<>~(/\ room.botTicksPending > 0
               /\ room.hand_number <= MaxHands
               /\ room.phase = "playing"
               /\ Len(room.trick_history) < tricksPerHand(room))
     \/ []<><<BotTick>>_vars
  /\ \/ []<>~(/\ room.phase = "playing"
               /\ Len(room.trick_history) < tricksPerHand(room)
               /\ room.turn_seat \in ClientSeats
               /\ room.seats[room.turn_seat].ws)
     \/ []<><<\E me \in ClientSeats : \E cardId \in CardsToPlay(me) :
                PlayCard(me, cardId)>>_vars

\* renege mode on or off; one of the clients raises calls on the first trick
InitRenege ==
  /\ \E on \in BOOLEAN :
       room = newRoom(DefaultDeckConfig, PlayMatchConfig(on, NumShuffles))
  /\ \E accuser \in ClientSeats : env = [stray |-> 0, accuser |-> accuser]

NextRenege ==
  \/ \E wanted \in ClientSeats : SeatChoose(wanted)
  \/ \E me \in ClientSeats : ReadySet(me, TRUE)
  \/ \E wanted \in PlayBotSeats : BotAdd(1, wanted)
  \/ \E me \in ClientSeats : \E cardId \in CardsToPlay(me) : PlayCard(me, cardId)
  \/ \E payload \in RenegePayloadsUpTo(0) : RenegeCall(env.accuser, payload)
  \/ BotTick

SpecRenege == InitRenege /\ [][NextRenege]_vars

\* renege mode on; the client at seat 1 raises calls on every trick of the
\* hand
InitCalls ==
  /\ room = newRoom(DefaultDeckConfig, PlayMatchConfig(TRUE, NumShuffles))
  /\ env = [stray |-> 0, accuser |-> 1]

NextCalls ==
  \/ \E wanted \in ClientSeats : SeatChoose(wanted)
  \/ \E me \in ClientSeats : ReadySet(me, TRUE)
  \/ \E wanted \in PlayBotSeats : BotAdd(1, wanted)
  \/ \E me \in ClientSeats : \E cardId \in CardsToPlay(me) : PlayCard(me, cardId)
  \/ \E payload \in RenegePayloadsUpTo(Min(Len(room.trick_history),
                                           tricksPerHand(room) - 1)) :
       RenegeCall(env.accuser, payload)
  \/ BotTick

SpecCalls == InitCalls /\ [][NextCalls]_vars

\* ------------------------------------------------------------------ snapshot
\* Two rooms, room and env.twin, that receive the same messages from four
\* clients; the shuffles of the two rooms are independent, so the hands
\* dealt may differ.  Renege mode is on and the first hand bids itself.
SnapshotMatchConfig ==
  [BaseMatchConfig EXCEPT !.first_hand_bids_itself = TRUE,
                          !.hand_size = SnapshotHandSize,
                          !.shuffles = SnapshotShuffles,
                          !.renege_on = TRUE]

InitSnapshot ==
  /\ room = newRoom(DefaultDeckConfig, SnapshotMatchConfig)
  /\ env = [stray |-> 0, twin |-> newRoom(DefaultDeckConfig, SnapshotMatchConfig)]

BothBecome(r, t) ==
  /\ room.hand_number <= MaxHands
  /\ room' = r
  /\ env' = [env EXCEPT !.twin = t]

\* the shuffle is drawn only if the handler starts a hand
ShufflesDrawn(before, after) ==
  IF after.hand_number = before.hand_number THEN {0} ELSE Seeds(before)

SnapshotSeatChoose(wanted) ==
  BothBecome(seatChoose(room, wanted), seatChoose(env.twin, wanted))

SnapshotReadySet(me) ==
  /\ Seated(me)
  /\ \E seed \in ShufflesDrawn(room, readySet(room, me, TRUE, 0)) :
       \E twinSeed \in ShufflesDrawn(env.twin, readySet(env.twin, me, TRUE, 0)) :
         BothBecome(readySet(room, me, TRUE, seed),
                    readySet(env.twin, me, TRUE, twinSeed))

SnapshotPlayCard(me, cardId) ==
  /\ Seated(me)
  /\ \E seed \in ShufflesDrawn(room, playCardForSeat(room, me, cardId, 0).room) :
       \E twinSeed \in ShufflesDrawn(env.twin,
                                     playCardForSeat(env.twin, me, cardId, 0).room) :
         BothBecome(playCardForSeat(room, me, cardId, seed).room,
                    playCardForSeat(env.twin, me, cardId, twinSeed).room)

\* the timer callbacks of the two rooms; neither room has a bot, so the
\* callback starts no hand
SnapshotBotTick ==
  /\ room.botTicksPending > 0 \/ env.twin.botTicksPending > 0
  /\ BothBecome(IF room.botTicksPending > 0
                THEN maybeBotAct(botTimerFires(room), 0)
                ELSE room,
                IF env.twin.botTicksPending > 0
                THEN maybeBotAct(botTimerFires(env.twin), 0)
                ELSE env.twin)

NextSnapshot ==
  \/ \E wanted \in Seats : SnapshotSeatChoose(wanted)
  \/ \E me \in Seats : SnapshotReadySet(me)
  \/ \E me \in Seats : \E cardId \in CardsToPlay(me) : SnapshotPlayCard(me, cardId)
  \/ SnapshotBotTick

SpecSnapshot == InitSnapshot /\ [][NextSnapshot]_vars

\* --------------------------------------------------------------------- trick
\* determineTrickWinner on the tricks playCardForSeat can complete: four
\* different cards played clockwise from the leader, the lead suit being the
\* effective suit of the first card.  env.winner is the value returned.
TrickCardIds ==
  {"JOKER_COLOR", "JOKER_BW", "D2", "S2", "S3", "HA", "H10", "H9", "DK", "D3"}

TrickOf(leader, ids) ==
  [leaderSeat |-> leader,
   leadSuit |-> "none",
   plays |-> [i \in 1..4 |->
                [seat |-> ((leader + i - 2) % 4) + 1, card_id |-> ids[i],
                 had_led_suit_before_play |-> "null"]]]

InitTrick ==
  /\ \E config \in DeckConfigs : room = newRoom(config, BaseMatchConfig)
  /\ \E leader \in {1, 4} : \E ids \in [1..4 -> TrickCardIds] :
       /\ \A i, j \in 1..4 : i # j => ids[i] # ids[j]
       /\ env = [stray |-> 0,
                 trick |-> [TrickOf(leader, ids) EXCEPT
                              !.leadSuit = effectiveSuit(CardOf(room.config, ids[1]))],
                 winner |-> NoSeat]

ResolveTrick ==
  /\ env.winner = NoSeat
  /\ env' = [env EXCEPT !.winner = determineTrickWinner(room.config, env.trick)]
  /\ UNCHANGED room

NextTrick == ResolveTrick

SpecTrick == InitTrick /\ [][NextTrick]_vars

\* --------------------------------------------------------------- scored hands
\* A match as a sequence of scored hands.  Each step ends one hand: a played
\* hand (final bids that meet the minimum total, the books of 13 tricks and
\* the renege ledger) scored by scorePlayedHand, or a books-made hand (team
\* totals below the minimum total) scored by scoreBooksMadeHand.  env.before
\* is the match record before the hand and env.hand_scored the hand_scored
\* message: the mode and the result of scoreHand.
ScoreMatchConfigs ==
  {[BaseMatchConfig EXCEPT !.hand_size = TricksInHand,
                           !.ten_for_two_enabled = tenForTwo,
                           !.bags_enabled = bags[1],
                           !.bags_penalty_at = bags[2],
                           !.bags_penalty_points = bags[3]] :
     tenForTwo \in BOOLEAN,
     bags \in {<<FALSE, 10, 100>>, <<TRUE, 10, 100>>, <<TRUE, 3, 50>>}}

ScoreBidInputs == {0, 1, 4, 7, 10}

ScoreBookInputs == {0, 4, 9, TricksInHand}

InitScore ==
  /\ \E mc \in ScoreMatchConfigs : room = newRoom(DefaultDeckConfig, mc)
  /\ env = [stray |-> 0, before |-> room.match,
            hand_scored |-> [mode |-> "none",
                             res |-> scoreHand(0, 0, 0, 0, room.match,
                                               room.match_config)]]

ScorePlayedHand(bids, booksA, ledgerA) ==
  LET played == [room EXCEPT
                   !.phase = "playing",
                   !.hand_number = @ + 1,
                   !.bidding = NoBidding,
                   !.final_bids = bids,
                   !.books = [A |-> booksA, B |-> TricksInHand - booksA],
                   !.renege.adjustment = [A |-> ledgerA, B |-> -ledgerA]]
  IN  /\ room.hand_number < MaxScoredHands
      /\ bids.A + bids.B >= getMinTotal(room, getBoard(room))
      /\ room' = scorePlayedHand(played)
      /\ env' = [env EXCEPT
                   !.before = room.match,
                   !.hand_scored =
                      [mode |-> "played",
                       res |-> scoreHand(bids.A, bids.B,
                                         played.books.A + played.renege.adjustment.A,
                                         played.books.B + played.renege.adjustment.B,
                                         room.match, room.match_config)]]

ScoreBooksMadeHand(totals) ==
  LET truce == [room EXCEPT
                  !.phase = "negotiating",
                  !.hand_number = @ + 1,
                  !.books = [A |-> 0, B |-> 0],
                  !.renege = NoRenege,
                  !.final_bids = totals,
                  !.bidding = [initBidding(room) EXCEPT
                                 !.team_totals = totals,
                                 !.confirmed = [A |-> TRUE, B |-> TRUE],
                                 !.negotiation.stage = "resolved_books_made"]]
  IN  /\ room.hand_number < MaxScoredHands
      /\ totals.A + totals.B < getMinTotal(room, getBoard(room))
      /\ room' = scoreBooksMadeHand(truce).room
      /\ env' = [env EXCEPT
                   !.before = room.match,
                   !.hand_scored =
                      [mode |-> "books_made",
                       res |-> scoreHand(totals.A, totals.B, totals.A, totals.B,
                                         room.match, room.match_config)]]

NextScore ==
  \/ \E bids \in [A : ScoreBidInputs, B : ScoreBidInputs] :
       \E booksA \in ScoreBookInputs : \E ledgerA \in {-RenegeDelta, 0, RenegeDelta} :
         ScorePlayedHand(bids, booksA, ledgerA)
  \/ \E totals \in [A : ScoreBidInputs, B : ScoreBidInputs] :
       ScoreBooksMadeHand(totals)

SpecScore == InitScore /\ [][NextScore]_vars

\* ------------------------------------------------------------- minimum total
\* Matches whose minimum total bid comes from the board (no override: 11 for
\* board 4, 5 for board 1) and matches with an override, 9, that differs
\* from the board's value and that totals of teams at the board can miss.
BoardMatchConfigs ==
  {[BaseMatchConfig EXCEPT !.min_total_bid = NoPick],
   [BaseMatchConfig EXCEPT !.min_total_bid = NoPick, !.board = 1],
   [BaseMatchConfig EXCEPT !.min_total_bid = 9]}

InitBoard ==
  /\ \E mc \in BoardMatchConfigs : room = newRoom(DefaultDeckConfig, mc)
  /\ env = [stray |-> 0]

SpecBoard == InitBoard /\ [][Next]_vars

\* --------------------------------------------------------------- the 52 cards
\* The deck of a hand as startNewHand handles it: built, shuffled, probed for
\* the first diamond and dealt, with all 52 cards.  The outcomes of the
\* shuffle that are explored are the Fisher-Yates passes of DeckShuffles
\* random sources (the first leaves the deck as built), each followed by a
\* cut at any of the 52 positions, and each of those with the diamonds
\* moved to the bottom.
FullDeckSize == 4 * TricksInHand

\* the probe that takes D2 for a spade
determineFirstDealerPastDeuce(shuffledDeck) ==
  LET hits == {i \in 0..(Len(shuffledDeck) - 1) :
                 shuffledDeck[i + 1].suit = "D" /\ ~shuffledDeck[i + 1].is_trump}
      first == CHOOSE i \in hits : \A j \in hits : i <= j
      failed(e) == [error |-> e, dealer_seat |-> NoSeat, found_card_id |-> "none",
                    dealt_index |-> -1]
  IN  IF Len(shuffledDeck) # FullDeckSize THEN failed("probe_invalid_deck")
      ELSE IF hits = {} THEN failed("probe_no_diamond_found")
      ELSE [error |-> "ok", dealer_seat |-> (first % 4) + 1,
            found_card_id |-> shuffledDeck[first + 1].id, dealt_index |-> first]

\* the value determineFirstDealerSeat returns, or the error it throws
determineFirstDealer(shuffledDeck) ==
  LET hits == {i \in 0..(Len(shuffledDeck) - 1) : shuffledDeck[i + 1].suit = "D"}
      first == CHOOSE i \in hits : \A j \in hits : i <= j
      failed(e) == [error |-> e, dealer_seat |-> NoSeat, found_card_id |-> "none",
                    dealt_index |-> -1]
  IN  IF Len(shuffledDeck) # FullDeckSize THEN failed("probe_invalid_deck")
      ELSE IF hits = {} THEN failed("probe_no_diamond_found")
      ELSE [error |-> "ok", dealer_seat |-> (first % 4) + 1,
            found_card_id |-> shuffledDeck[first + 1].id, dealt_index |-> first]

InitDeck ==
  /\ \E config \in DeckConfigs : room = newRoom(config, BaseMatchConfig)
  /\ env = [stray |-> 0, stage |-> "none", deck |-> <<>>,
            probe |-> determineFirstDealer(<<>>), probed |-> FALSE,
            hands |-> [s \in Seats |-> <<>>], dealt |-> FALSE]

BuildDeck ==
  /\ env.stage = "none"
  /\ env' = [env EXCEPT !.stage = "built", !.deck = buildDeck(room.config)]
  /\ UNCHANGED room

ShuffleDeck(seed, k, sink) ==
  LET cut(deck) == [i \in 1..Len(deck) |-> deck[((i - 1 + k) % Len(deck)) + 1]]
      diamond(c) == c.suit = "D"
      other(c) == c.suit # "D"
      diamondsLast(deck) == SelectSeq(deck, other) \o SelectSeq(deck, diamond)
      shuffled(deck) == IF sink THEN diamondsLast(cut(deck)) ELSE cut(deck)
  IN  /\ env.stage = "built"
      /\ env' = [env EXCEPT !.stage = "shuffled",
                             !.deck = shuffled(shuffleDeck(env.deck, seed))]
      /\ UNCHANGED room

ProbeDeck ==
  /\ env.stage = "shuffled"
  /\ ~env.probed
  /\ env' = [env EXCEPT !.probed = TRUE, !.probe = determineFirstDealer(env.deck)]
  /\ UNCHANGED room

DealDeck ==
  /\ env.stage = "shuffled"
  /\ ~env.dealt
  /\ env' = [env EXCEPT !.dealt = TRUE, !.hands = dealHands(env.deck)]
  /\ UNCHANGED room

NextDeck ==
  \/ BuildDeck
  \/ \E seed \in 0..(DeckShuffles - 1) : \E k \in 0..(FullDeckSize - 1) :
       \E sink \in BOOLEAN : ShuffleDeck(seed, k, sink)
  \/ ProbeDeck
  \/ DealDeck

SpecDeck == InitDeck /\ [][NextDeck]_vars

\* ---------------------------------------------------------------- a bid hand
\* A hand that is bid, played and scored: the first hand is bid like every
\* other one, renege mode is on, clients sit at seats 1 and 2 and bots at
\* seats 3 and 4, and the client at seat 1 raises calls on the first trick.
\* The minimum total is the two boards, so that two confirmed teams go on to
\* play.
InitHand ==
  /\ room = newRoom(DefaultDeckConfig,
                    [PlayMatchConfig(TRUE, NumShuffles) EXCEPT
                       !.first_hand_bids_itself = FALSE,
                       !.min_total_bid = 2 * BaseMatchConfig.board])
  /\ env = [stray |-> 0, accuser |-> 1]

NextHand ==
  \/ \E wanted \in ClientSeats : SeatChoose(wanted)
  \/ \E me \in ClientSeats : ReadySet(me, TRUE)
  \/ \E wanted \in PlayBotSeats : BotAdd(1, wanted)
  \/ \E me \in ClientSeats : BidSet(me, MaxBid)
  \/ \E me \in ClientSeats : BidConfirm(me)
  \/ \E me \in ClientSeats : \E cardId \in CardsToPlay(me) : PlayCard(me, cardId)
  \/ \E payload \in RenegePayloadsUpTo(0) : RenegeCall(env.accuser, payload)
  \/ BotTick

SpecHand == InitHand /\ [][NextHand]_vars

\* --------------------------------------------------------- bots that negotiate
\* Bots take over the seat of a connection that closes.  Clients sit at
\* seats 1 and 2, the client at seat 1 puts bots on the other seats, and the
\* connection at seat 2 may close: team B is a bot with a human or two bots.
\* The hand is followed through bidding and negotiation.
InitBots ==
  /\ room = newRoom(DefaultDeckConfig,
                    [BaseMatchConfig EXCEPT !.bot_takeover_on_disconnect = TRUE])
  /\ env = [stray |-> 0]

NextBots ==
  \/ \E wanted \in ClientSeats : SeatChoose(wanted)
  \/ \E me \in ClientSeats : ReadySet(me, TRUE)
  \/ \E wanted \in Seats \ {1} : BotAdd(1, wanted)
  \/ \E me \in ClientSeats, bid \in BidInputs : BidSet(me, bid)
  \/ \E me \in ClientSeats : BidConfirm(me)
  \/ \E me \in ClientSeats, choice \in {"books_made", "increase"} :
       NegotiationChoice(me, choice)
  \/ \E me \in ClientSeats, accept \in BOOLEAN : NegotiationResponse(me, accept)
  \/ Close(2)
  \/ BotTick

SpecBots == InitBots /\ [][NextBots]_vars

\* ------------------------------------------------------------ match lifecycle
Phases == {"lobby", "bidding", "negotiating", "playing", "complete"}

\* the match has ended on a terminal condition of endHandAndMaybeStartNext
C1_Terminal == room.match_complete \in {"target_score", "first_hand_10plus_books"}

\* what a finished match leaves alone: score and bags, books, hands, bids,
\* dealer, and the number of times the hand has been scored
C1_Frozen ==
  /\ room'.match = room.match
  /\ room'.books = room.books
  /\ room'.hands = room.hands
  /\ room'.bidding.picks = room.bidding.picks
  /\ room'.bidding.team_totals = room.bidding.team_totals
  /\ room'.final_bids = room.final_bids
  /\ room'.dealer_seat = room.dealer_seat
  /\ room'.hand_scored = room.hand_scored

\* C1: once a terminal condition is reached (target score after scoring, or
\* the first-hand instant win) the phase is complete, and no message and no
\* bot tick changes score, bags, books, hands, bids or dealer afterwards
\* unless it resets the room to lobby; the hand that ended the match is
\* scored once.
C1_TerminalFreezes ==
  [][C1_Terminal =>
       /\ room.phase = "complete"
       /\ room.hand_scored = 1
       /\ (room'.phase = "lobby" \/ C1_Frozen)]_vars

\* the phase edges as the specification lists them
C2_StatedEdges ==
  {<<"lobby", "bidding">>, <<"lobby", "playing">>,
   <<"bidding", "negotiating">>, <<"bidding", "playing">>,
   <<"negotiating", "playing">>, <<"negotiating", "bidding">>,
   <<"negotiating", "complete">>,
   <<"playing", "bidding">>, <<"playing", "complete">>}
  \cup {<<p, "lobby">> : p \in Phases}

C2_CodeEdges ==
  {<<"lobby", "bidding">>, <<"lobby", "playing">>,
   <<"bidding", "negotiating">>, <<"bidding", "playing">>, <<"bidding", "complete">>,
   <<"negotiating", "playing">>, <<"negotiating", "bidding">>,
   <<"negotiating", "complete">>,
   <<"playing", "bidding">>, <<"playing", "complete">>}

negotiationStage == room.bidding.negotiation.stage

\* a lock cycle is open: the bidding round, or a both-increase re-lock
InLockCycle ==
  /\ room.bidding.exists
  /\ \/ room.phase = "bidding"
     \/ room.phase = "negotiating" /\ negotiationStage = "both_increase_relock"

dealingTeam == dealingTeamFromDealerSeat(room.dealer_seat)
nonDealingTeam == nonDealingTeamFromDealerSeat(room.dealer_seat)

\* a team's total counted from the seats' picks
picksTotal(picks, team) ==
  IF team = "A" THEN pickOrZero(picks[1]) + pickOrZero(picks[3])
  ELSE pickOrZero(picks[2]) + pickOrZero(picks[4])

NoChoices == [A |-> "none", B |-> "none"]
NoneConfirmed == [A |-> FALSE, B |-> FALSE]

\* in a lock cycle the turn is the non-dealing team's until it has confirmed
\* and the dealing team's after that; a confirm from a seat whose team is not
\* on turn is rejected and changes nothing; an accepted confirm passes the
\* turn on, to the dealing team or to nobody
C3_OutOfOrderRejected ==
  InLockCycle =>
    /\ ~room.bidding.confirmed[dealingTeam]
    /\ room.bidding.must_confirm_team =
         (IF room.bidding.confirmed[nonDealingTeam] THEN dealingTeam ELSE nonDealingTeam)
    /\ \A s \in Seats :
         LET team == seatToTeam(s)
             r == handleBidConfirm(room, s)
         IN  /\ (team = dealingTeam /\ ~room.bidding.confirmed[nonDealingTeam])
                  => r.error = "not_your_team_turn_to_confirm" /\ r.room = room
             /\ (team = nonDealingTeam /\ room.bidding.confirmed[nonDealingTeam])
                  => r.error = "not_your_team_turn_to_confirm" /\ r.room = room
             /\ r.error = "ok" =>
                  r.room.bidding.must_confirm_team =
                    (IF team = nonDealingTeam THEN dealingTeam ELSE "none")

\* a step that leaves the dealing team confirmed
C3_DealingTeamLocks ==
  /\ InLockCycle
  /\ room'.hand_number = room.hand_number
  /\ room'.bidding.confirmed[dealingTeam]

\* C3: in every lock cycle (the bidding round and every both-increase
\* re-lock) the dealing team's confirm is never accepted before the
\* non-dealing team has confirmed; a confirm out of order is rejected with
\* not_your_team_turn_to_confirm, and the turn passes from the first team to
\* the other, then to none.
C3_LockOrder ==
  /\ []C3_OutOfOrderRejected
  /\ [][C3_DealingTeamLocks =>
          room.bidding.confirmed[nonDealingTeam]
          \/ room'.bidding.confirmed[nonDealingTeam]]_vars

\* in a re-lock cycle the non-dealing team has confirmed and the dealing
\* team is on turn
C3_SecondTeamOnTurn ==
  /\ room.phase = "negotiating"
  /\ negotiationStage = "both_increase_relock"
  /\ room.bidding.confirmed[nonDealingTeam]
  /\ room.bidding.must_confirm_team = dealingTeam

\* what an accepted confirm in the bidding phase leads to
C4_ConfirmOutcome ==
  room.phase = "bidding" /\ room.bidding.exists =>
    /\ ~(room.bidding.confirmed.A /\ room.bidding.confirmed.B)
    /\ \A s \in Seats :
         LET b == room.bidding
             team == seatToTeam(s)
             total == picksTotal(b.picks, "A") + picksTotal(b.picks, "B")
             r == handleBidConfirm(room, s)
         IN  r.error = "ok" =>
               IF ~b.confirmed[otherTeam(team)]
               THEN /\ r.room.phase = "bidding"
                    /\ r.room.bidding.confirmed = [b.confirmed EXCEPT ![team] = TRUE]
               ELSE IF total >= b.min_total_bid
               THEN /\ r.room.phase = "playing"
                    /\ r.room.final_bids =
                         [A |-> picksTotal(b.picks, "A"), B |-> picksTotal(b.picks, "B")]
               ELSE /\ r.room.phase = "negotiating"
                    /\ r.room.bidding.negotiation.stage = "choose"
                    /\ r.room.bidding.negotiation.choices = NoChoices

\* where a step out of the bidding phase arrives
C4_LeavesBidding ==
  room.phase = "bidding" /\ room'.phase # "bidding" =>
    LET b == room'.bidding
        total == picksTotal(b.picks, "A") + picksTotal(b.picks, "B")
    IN  \/ room'.phase = "complete"
        \/ /\ room'.phase = "playing"
           /\ total >= b.min_total_bid
           /\ b.confirmed.A /\ b.confirmed.B
           /\ room'.final_bids =
                [A |-> picksTotal(b.picks, "A"), B |-> picksTotal(b.picks, "B")]
        \/ /\ room'.phase = "negotiating"
           /\ total < b.min_total_bid
           /\ b.negotiation.stage = "choose"
           /\ b.negotiation.choices = NoChoices

\* C4: the confirm that makes both teams confirmed in the bidding phase
\* leads to playing with final_bids = the team totals when the combined total
\* is at least min_total_bid, and otherwise to negotiating at stage choose
\* with both choices unset; with one team confirmed the phase stays bidding.
C4_BothConfirmed ==
  /\ []C4_ConfirmOutcome
  /\ [][C4_LeavesBidding]_vars

\* playing reached straight from the bidding phase
C4_PlayingFromBidding ==
  /\ room.phase = "playing"
  /\ room.bidding.exists
  /\ negotiationStage = "none"
  /\ room.bidding.confirmed.A /\ room.bidding.confirmed.B
  /\ room.final_bids = room.bidding.team_totals

\* ---------------------------------------------------------------- negotiation
\* the stage edges of a negotiation; resolved_to_play is the stage the
\* bidding state records when the room moves to playing
C5_StageEdges ==
  {<<"choose", "resolved_books_made">>,
   <<"choose", "one_books_waiting_accept">>,
   <<"choose", "both_increase_relock">>,
   <<"one_books_waiting_accept", "resolved_books_made">>,
   <<"one_books_waiting_accept", "resolved_to_play">>,
   <<"both_increase_relock", "resolved_to_play">>,
   <<"both_increase_relock", "choose">>}

\* the stage a handler's result is in
stageOf(r) == r.room.bidding.negotiation.stage

\* the stage two complete choices lead to
C5_ChosenStage(a, bb) ==
  IF a = "books_made" /\ bb = "books_made" THEN "resolved_books_made"
  ELSE IF a = "increase" /\ bb = "increase" THEN "both_increase_relock"
  ELSE "one_books_waiting_accept"

\* what each bidding message does to the stage, for every seat, in every
\* state that has a bidding state
C5_HandlerEdges ==
  room.bidding.exists =>
    \A s \in Seats :
      LET b == room.bidding
          st == negotiationStage
          team == seatToTeam(s)
          total == picksTotal(b.picks, "A") + picksTotal(b.picks, "B")
          confirm == handleBidConfirm(room, s)
      IN  /\ \A v \in BidInputs :
               LET r == handleBidSet(room, s, v)
               IN  stageOf(r) = st /\ r.room.phase = room.phase
          /\ \A choice \in {"books_made", "increase"} :
               LET r == handleNegotiationChoice(room, s, choice)
                   other == b.negotiation.choices[otherTeam(team)]
               IN  IF room.phase = "negotiating" /\ st = "choose" /\ other # "none"
                   THEN /\ r.error = "ok"
                        /\ stageOf(r) = C5_ChosenStage(choice, other)
                        /\ r.room.phase = "negotiating"
                   ELSE stageOf(r) = st /\ r.room.phase = room.phase
          /\ \A accept \in BOOLEAN :
               LET r == handleNegotiationResponse(room, s, accept)
               IN  IF stageOf(r) = st THEN r.room.phase = room.phase
                   ELSE /\ room.phase = "negotiating"
                        /\ st = "one_books_waiting_accept"
                        /\ IF accept
                           THEN stageOf(r) = "resolved_to_play" /\ r.room.phase = "playing"
                           ELSE stageOf(r) = "resolved_books_made"
                                /\ r.room.phase = "negotiating"
          /\ IF stageOf(confirm) = st THEN TRUE
             ELSE IF st = "none"
             THEN /\ room.phase = "bidding"
                  /\ b.confirmed[otherTeam(team)]
                  /\ total < b.min_total_bid
                  /\ stageOf(confirm) = "choose"
                  /\ confirm.room.phase = "negotiating"
             ELSE /\ room.phase = "negotiating"
                  /\ st = "both_increase_relock"
                  /\ \/ stageOf(confirm) = "resolved_to_play"
                        /\ confirm.room.phase = "playing"
                     \/ stageOf(confirm) = "choose"
                        /\ confirm.room.phase = "negotiating"

\* a step within one hand that changes the stage
C5_StageStep ==
  LET st == negotiationStage
      st2 == room'.bidding.negotiation.stage
      b2 == room'.bidding
  IN  room'.hand_number = room.hand_number /\ st2 # st =>
        /\ IF st = "none"
           THEN /\ room.phase = "bidding" /\ room'.phase = "negotiating"
                /\ st2 = "choose"
                /\ picksTotal(b2.picks, "A") + picksTotal(b2.picks, "B") < b2.min_total_bid
           ELSE room.phase = "negotiating" /\ <<st, st2>> \in C5_StageEdges
        /\ (st = "choose" =>
              b2.negotiation.choices.A # "none" /\ b2.negotiation.choices.B # "none")
        /\ (room'.phase = "playing") = (st2 = "resolved_to_play")

\* a step that ends the hand from the negotiating phase
C5_HandEnds ==
  room.phase = "negotiating" /\ room'.hand_number # room.hand_number =>
    negotiationStage \in {"choose", "one_books_waiting_accept"}

\* C5: the negotiation stage only moves choose -> resolved-books-made |
\* one-team-waiting-accept | both-increase-relock, one-team-waiting-accept ->
\* resolved-books-made (decline) | playing (accept), both-increase-relock ->
\* playing | choose; negotiation is entered only from bidding with both teams
\* confirmed and the combined total below the minimum; the stage leaves
\* choose only when the second team's choice is recorded.
C5_NegotiationStages ==
  /\ []C5_HandlerEdges
  /\ [][C5_StageStep /\ C5_HandEnds]_vars

\* one team chose books made, the other accepted after increasing
C5_PlayingAfterAccept ==
  /\ room.phase = "playing"
  /\ negotiationStage = "resolved_to_play"
  /\ room.bidding.negotiation.books_made_team # "none"

\* the reset of the lock cycle after both teams chose increase, and the
\* outcome of the confirm that closes a re-lock cycle
C6_RelockHandlers ==
  room.phase = "negotiating" =>
    \A s \in Seats :
      LET b == room.bidding
          team == seatToTeam(s)
          total == picksTotal(b.picks, "A") + picksTotal(b.picks, "B")
          choice == handleNegotiationChoice(room, s, "increase")
          confirm == handleBidConfirm(room, s)
      IN  /\ (negotiationStage = "choose"
                /\ b.negotiation.choices[otherTeam(team)] = "increase") =>
               /\ choice.error = "ok"
               /\ stageOf(choice) = "both_increase_relock"
               /\ choice.room.bidding.confirmed = NoneConfirmed
               /\ choice.room.bidding.must_confirm_team = nonDealingTeam
               /\ choice.room.bidding.lock_order = <<nonDealingTeam, dealingTeam>>
               /\ choice.room.bidding.picks = b.picks
               /\ choice.room.phase = "negotiating"
          /\ (negotiationStage = "both_increase_relock" /\ confirm.error = "ok") =>
               IF ~b.confirmed[otherTeam(team)]
               THEN /\ stageOf(confirm) = "both_increase_relock"
                    /\ confirm.room.phase = "negotiating"
                    /\ confirm.room.bidding.confirmed = [b.confirmed EXCEPT ![team] = TRUE]
               ELSE IF total >= b.min_total_bid
               THEN /\ confirm.room.phase = "playing"
                    /\ confirm.room.final_bids =
                         [A |-> picksTotal(b.picks, "A"), B |-> picksTotal(b.picks, "B")]
               ELSE /\ confirm.room.phase = "negotiating"
                    /\ stageOf(confirm) = "choose"
                    /\ confirm.room.bidding.negotiation.choices = NoChoices
                    /\ confirm.room.bidding.confirmed = NoneConfirmed
                    /\ confirm.room.bidding.has_min_picks
                    /\ confirm.room.bidding.min_picks = b.picks
                    /\ confirm.room.bidding.picks = b.picks

\* a step that closes a re-lock cycle
C6_RelockStep ==
  LET b2 == room'.bidding
      total == picksTotal(b2.picks, "A") + picksTotal(b2.picks, "B")
  IN  /\ room.phase = "negotiating"
      /\ negotiationStage = "both_increase_relock"
      /\ room'.hand_number = room.hand_number
      /\ b2.negotiation.stage # "both_increase_relock"
      => \/ /\ room'.phase = "playing"
            /\ total >= b2.min_total_bid
            /\ room'.final_bids =
                 [A |-> picksTotal(b2.picks, "A"), B |-> picksTotal(b2.picks, "B")]
         \/ /\ room'.phase = "negotiating"
            /\ b2.negotiation.stage = "choose"
            /\ total < b2.min_total_bid
            /\ b2.negotiation.choices = NoChoices
            /\ b2.confirmed = NoneConfirmed
            /\ b2.min_picks = b2.picks

\* C6: after both teams choose increase both go through a full lock cycle
\* (confirmed flags cleared, non-dealing team first); when both have
\* re-confirmed, a combined total of at least min_total_bid moves the room to
\* playing with final_bids = the current totals, and otherwise the stage is
\* choose again with the choices and the confirmed flags cleared and the
\* baseline replaced by the current picks.
C6_BothIncreaseRelock ==
  /\ []C6_RelockHandlers
  /\ [][C6_RelockStep]_vars

\* playing reached by a re-lock cycle in which a team raised its bid
C6_PlayingAfterRelock ==
  /\ room.phase = "playing"
  /\ negotiationStage = "resolved_to_play"
  /\ room.bidding.negotiation.choices = [A |-> "increase", B |-> "increase"]
  /\ room.final_bids = room.bidding.team_totals
  /\ \E s \in Seats : room.bidding.picks[s] > room.bidding.min_picks[s]

\* C7: in stage one-team-waiting-accept, with required = max(0,
\* min_total_bid - the books-made team's total), an accept by the increasing
\* team with a total below required is rejected with
\* negotiation_increase_not_enough and changes nothing; an accept with a
\* total of at least required moves the room to playing with final_bids =
\* the team totals; a response from the books-made team is rejected.
C7_AcceptNeedsEnough ==
  room.phase = "negotiating" /\ negotiationStage = "one_books_waiting_accept" =>
    LET b == room.bidding
        n == b.negotiation
        booksTeam == n.books_made_team
        incTeam == n.increasing_team
        required == Max(0, b.min_total_bid - picksTotal(b.picks, booksTeam))
    IN  /\ booksTeam \in Teams /\ incTeam = otherTeam(booksTeam)
        /\ n.required_increasing_team_total = required
        /\ \A s \in Seats :
             LET accept == handleNegotiationResponse(room, s, TRUE)
                 decline == handleNegotiationResponse(room, s, FALSE)
             IN  IF seatToTeam(s) = booksTeam
                 THEN /\ accept.error = "only_increasing_team_can_respond"
                      /\ decline.error = "only_increasing_team_can_respond"
                      /\ accept.room = room /\ decline.room = room
                 ELSE IF picksTotal(b.picks, incTeam) < required
                 THEN /\ accept.error = "negotiation_increase_not_enough"
                      /\ accept.room = room
                 ELSE /\ accept.error = "ok"
                      /\ accept.room.phase = "playing"
                      /\ accept.room.final_bids =
                           [A |-> picksTotal(b.picks, "A"), B |-> picksTotal(b.picks, "B")]
                      /\ accept.room.bidding.picks = b.picks

\* the increasing team has raised its bid and is still short of required
C7_IncreaseNotEnoughYet ==
  /\ room.phase = "negotiating"
  /\ negotiationStage = "one_books_waiting_accept"
  /\ \E s \in Seats :
       /\ seatToTeam(s) = room.bidding.negotiation.increasing_team
       /\ room.bidding.picks[s] > room.bidding.min_picks[s]
  /\ room.bidding.team_totals[room.bidding.negotiation.increasing_team]
       < room.bidding.negotiation.required_increasing_team_total

\* the points of a team that makes exactly its bid
C8_Points(bid) ==
  IF room.match_config.ten_for_two_enabled /\ bid >= 10 THEN 200 ELSE 10 * bid

\* no card has been played in a hand that is being negotiated, and the
\* choice or decline that resolves it as books made records the team totals
\* as the final bids
C8_ResolvesAtTotals ==
  room.phase = "negotiating" =>
    /\ room.books = [A |-> 0, B |-> 0]
    /\ room.trick_index = 0
    /\ room.trick_history = <<>>
    /\ \A s \in Seats :
         LET b == room.bidding
             totals == [A |-> picksTotal(b.picks, "A"), B |-> picksTotal(b.picks, "B")]
             decline == handleNegotiationResponse(room, s, FALSE)
             choice == handleNegotiationChoice(room, s, "books_made")
         IN  /\ (decline.error = "ok" =>
                   /\ stageOf(decline) = "resolved_books_made"
                   /\ decline.room.final_bids = totals)
             /\ (stageOf(choice) = "resolved_books_made"
                   /\ negotiationStage # "resolved_books_made" =>
                   choice.room.final_bids = totals)

\* a step that resolves the hand as books made
C8_Resolution ==
  /\ room.phase = "negotiating"
  /\ negotiationStage \in {"choose", "one_books_waiting_accept"}
  /\ \/ room'.hand_number # room.hand_number
     \/ room'.bidding.negotiation.stage = "resolved_books_made"

\* the resolving step scores both teams and ends the hand
C8_ScoredAndEnded ==
  C8_Resolution =>
    LET bid == room.bidding.team_totals
        score == [A |-> room.match.score.A + C8_Points(bid.A),
                  B |-> room.match.score.B + C8_Points(bid.B)]
        target == room.match.target_score
    IN  /\ bid = [A |-> picksTotal(room.bidding.picks, "A"),
                  B |-> picksTotal(room.bidding.picks, "B")]
        /\ room'.match.score = score
        /\ room'.match.bags = room.match.bags
        /\ room'.hand_scored = 1 \/ room'.hand_number = room.hand_number + 1
        /\ IF score.A >= target \/ score.B >= target
           THEN /\ room'.match_complete = "target_score"
                /\ room'.hand_number = room.hand_number
                /\ room'.final_bids = bid
                /\ room'.books = [A |-> 0, B |-> 0]
                /\ room'.trick_history = <<>>
                /\ room'.hands = room.hands
           ELSE /\ room'.match_complete = "none"
                /\ room'.hand_number = room.hand_number + 1
                /\ room'.phase = "bidding"
                /\ room'.books = [A |-> 0, B |-> 0]
                /\ room'.trick_history = <<>>

C9_BelowBaselineRejected ==
  room.phase = "negotiating" =>
    LET b == room.bidding
    IN  /\ b.has_min_picks
        /\ \A s \in Seats :
             /\ b.min_picks[s] # NoPick
             /\ b.picks[s] >= b.min_picks[s]
             /\ \A v \in 0..13 :
                  v < b.min_picks[s] =>
                    LET r == handleBidSet(room, s, v)
                        stageLocked ==
                          \/ negotiationStage = "choose"
                          \/ /\ negotiationStage = "one_books_waiting_accept"
                             /\ seatToTeam(s) # b.negotiation.increasing_team
                    IN  /\ r.error # "ok"
                        /\ r.room = room
                        /\ ~stageLocked => r.error = "negotiation_must_increase_or_hold"

\* the baseline is the picks at the moment negotiation is entered, and it
\* never goes down while the hand is negotiated or when it goes on to play
C9_BaselineStep ==
  LET b == room.bidding
      b2 == room'.bidding
  IN  /\ (room.phase = "bidding" /\ room'.phase = "negotiating" =>
            b2.has_min_picks /\ b2.min_picks = b2.picks)
      /\ (room.phase = "negotiating" /\ room'.phase \in {"negotiating", "playing"}
            /\ room'.hand_number = room.hand_number =>
            /\ \A s \in Seats :
                 b2.min_picks[s] >= b.min_picks[s] /\ b2.picks[s] >= b.min_picks[s]
            /\ \A team \in Teams :
                 b2.team_totals[team] >= picksTotal(b.min_picks, team))
      /\ (room.phase = "negotiating" /\ room'.phase = "playing" =>
            \A team \in Teams : room'.final_bids[team] >= picksTotal(b.min_picks, team))

C10_ConfirmRejected ==
  room.bidding.exists =>
    LET b == room.bidding
    IN  /\ \A team \in Teams :
             b.confirmed[team] =>
               /\ \A s \in teamSeats(team) : b.picks[s] # NoPick
               /\ picksTotal(b.picks, team) >= b.board
               /\ b.team_totals[team] >= b.board
        /\ \A s \in Seats :
             LET team == seatToTeam(s)
                 notTurn == b.must_confirm_team # team
                 missing == b.picks[s] = NoPick \/ b.picks[mateSeatOf(s)] = NoPick
                 below == picksTotal(b.picks, team) < b.board
                 r == handleBidConfirm(room, s)
             IN  /\ (notTurn \/ missing \/ below) => r.error # "ok" /\ r.room = room
                 /\ InLockCycle =>
                      r.error = (IF notTurn THEN "not_your_team_turn_to_confirm"
                                 ELSE IF missing THEN "both_teammates_must_pick"
                                 ELSE IF below THEN "team_bid_below_board"
                                 ELSE "ok")

\* the team on turn has both picks and a total below board
C10_BelowBoardOnTurn ==
  /\ room.phase = "bidding"
  /\ \E s \in Seats :
       /\ seatToTeam(s) = room.bidding.must_confirm_team
       /\ room.bidding.picks[s] # NoPick
       /\ room.bidding.picks[mateSeatOf(s)] # NoPick
       /\ room.bidding.team_totals[seatToTeam(s)] < room.bidding.board
       /\ handleBidConfirm(room, s).error = "team_bid_below_board"

\* ----------------------------------------------------------------------- C11
\* C11: in every reachable state that has a bidding state each team total is
\* the sum of the picks of the team's two seats, an absent pick counting as
\* 0, and every pick that is present is in 0..13; handleBidSet refuses a bid
\* outside 0..13 and leaves the picks as they are.
C11_TotalsAreSums ==
  room.bidding.exists =>
    /\ room.bidding.team_totals.A = picksTotal(room.bidding.picks, "A")
    /\ room.bidding.team_totals.B = picksTotal(room.bidding.picks, "B")
    /\ \A s \in Seats :
         room.bidding.picks[s] = NoPick \/ room.bidding.picks[s] \in 0..13
    /\ \A s \in Seats, v \in {-1, 14} :
         /\ handleBidSet(room, s, v).error = "invalid_bid"
         /\ handleBidSet(room, s, v).room.bidding = room.bidding

\* each team has one seat that has picked and one that has not
C11_OnePickPerTeam ==
  /\ room.bidding.exists
  /\ room.bidding.picks[1] # NoPick /\ room.bidding.picks[3] = NoPick
  /\ room.bidding.picks[2] = NoPick /\ room.bidding.picks[4] # NoPick
  /\ room.bidding.team_totals.A = room.bidding.picks[1]
  /\ room.bidding.team_totals.B = room.bidding.picks[4]
  /\ room.bidding.picks[1] # room.bidding.picks[4]

\* ------------------------------------------------------------------ claim C12
\* the seat whose turn it is while a trick is under way (it is not leading)
C12_Followers ==
  {s \in Seats : /\ room.phase = "playing"
                 /\ ~isRenegeOn(room)
                 /\ room.turn_seat = s
                 /\ room.current_trick.leadSuit # "none"}

C12_Rejected(s, r) == r.error = "must_follow_suit" /\ r.room = room

C12_Accepted(s, cardId, r) ==
  /\ r.error = "ok"
  /\ IndexOf(r.room.hands[s], cardId) = 0 \/ r.room.hand_number # room.hand_number
  /\ \/ Len(room.current_trick.plays) = 3
     \/ /\ Len(r.room.current_trick.plays) = Len(room.current_trick.plays) + 1
        /\ r.room.current_trick.plays[Len(r.room.current_trick.plays)].card_id = cardId

\* C12: with renege mode off, a seat that is not leading and holds a card of
\* the lead effective suit is refused (must_follow_suit) when it plays a card
\* of another effective suit, and the room (hand, current trick, turn,
\* spades_broken) is unchanged; a seat that holds no card of the lead
\* effective suit has every card of its hand accepted.
C12_MustFollowSuit ==
  \A s \in C12_Followers : \A i \in 1..Len(room.hands[s]) : \A seed \in Seeds(room) :
    IF handHasEffectiveSuit(room, room.hands[s], room.current_trick.leadSuit)
    THEN cardEffectiveSuit(room, room.hands[s][i]) # room.current_trick.leadSuit
           => C12_Rejected(s, playCardForSeat(room, s, room.hands[s][i], seed))
    ELSE C12_Accepted(s, room.hands[s][i],
                      playCardForSeat(room, s, room.hands[s][i], seed))

\* a client that must follow holds a card it may not play, after a seat that
\* could not follow had an off-suit card accepted earlier in the hand
C12_OffSuitRefusedAndAccepted ==
  /\ \E s \in C12_Followers \cap ClientSeats :
       /\ handHasEffectiveSuit(room, room.hands[s], room.current_trick.leadSuit)
       /\ \E i \in 1..Len(room.hands[s]) :
            cardEffectiveSuit(room, room.hands[s][i]) # room.current_trick.leadSuit
  /\ \E t \in 1..Len(room.trick_history) : \E p \in 1..4 :
       /\ room.trick_history[t].plays[p].had_led_suit_before_play = "false"
       /\ room.trick_history[t].plays[p].played_eff_suit # room.trick_history[t].lead_suit

\* ------------------------------------------------------------------ claim C13
\* the seat that is to lead a trick
C13_Leaders ==
  {s \in Seats : /\ room.phase = "playing"
                 /\ ~isRenegeOn(room)
                 /\ ensurePlayingTurnInitialized(room).turn_seat = s
                 /\ ensurePlayingTurnInitialized(room).current_trick.leadSuit = "none"}

C13_LeadOutcome(s, cardId, r) ==
  IF room.spades_broken \/ handIsAllTrump(room, room.hands[s])
  THEN r.error = "ok"
  ELSE r.error = "cannot_lead_trump_until_broken" /\ r.room = room

C13_TrumpLeadRule ==
  \A s \in C13_Leaders : \A i \in 1..Len(room.hands[s]) : \A seed \in Seeds(room) :
    CardOf(room.config, room.hands[s][i]).is_trump
      => C13_LeadOutcome(s, room.hands[s][i],
                         playCardForSeat(room, s, room.hands[s][i], seed))

\* the play that was placed last
C13_LastPlay(r) == r.current_trick.plays[Len(r.current_trick.plays)]

C13_LastPlayArchived(r) == r.trick_history[Len(r.trick_history)].plays[4]

C13_BreaksLegally(before, p) ==
  /\ CardOf(before.config, p.card_id).is_trump
  /\ \/ /\ p.had_led_suit_before_play = "false"
        /\ before.current_trick.leadSuit # "S"
     \/ /\ p.had_led_suit_before_play = "null"
        /\ handIsAllTrump(before, before.hands[p.seat])

\* the step on which the first trump of a hand is played
C13_FirstTrumpStep ==
  (~isRenegeOn(room) /\ room.phase = "playing" /\ ~room.spades_broken
   /\ room'.spades_broken)
    => C13_BreaksLegally(room,
         IF Len(room'.current_trick.plays) > 0 THEN C13_LastPlay(room')
         ELSE C13_LastPlayArchived(room'))

\* C13: with renege mode off, a lead of a trump card is accepted only when
\* spades are broken in this hand or the leader's whole hand is trump, and is
\* otherwise refused (cannot_lead_trump_until_broken) with the room unchanged;
\* the first trump of a hand is therefore played off-suit by a seat that
\* could not follow, or led from a hand that is all trump.
C13_LeadTrumpOnlyWhenBroken == []C13_TrumpLeadRule /\ [][C13_FirstTrumpStep]_vars

\* after the first trick a client is to lead with spades unbroken and holds
\* both a trump and a card that is not trump
C13_MixedHandOnLead ==
  /\ ~room.spades_broken
  /\ Len(room.trick_history) >= 1
  /\ \E s \in C13_Leaders \cap ClientSeats :
       /\ \E i \in 1..Len(room.hands[s]) : CardOf(room.config, room.hands[s][i]).is_trump
       /\ ~handIsAllTrump(room, room.hands[s])

\* ------------------------------------------------------------------ claim C14
C14_RankOrder == <<"2", "3", "4", "5", "6", "7", "8", "9", "10", "J", "Q", "K", "A">>

C14_Card(i) == CardOf(room.config, env.trick.plays[i].card_id)

C14_Trumps == {i \in 1..4 : C14_Card(i).is_trump}

C14_LeadSuited == {i \in 1..4 : ~C14_Card(i).is_trump
                                /\ C14_Card(i).suit = env.trick.leadSuit}

C14_HighestTrump ==
  CHOOSE i \in C14_Trumps :
    \A j \in C14_Trumps : C14_Card(j).trump_rank_value <= C14_Card(i).trump_rank_value

C14_HighestOfLeadSuit ==
  CHOOSE i \in C14_LeadSuited :
    \A j \in C14_LeadSuited :
      IndexOf(C14_RankOrder, C14_Card(j).rank) <= IndexOf(C14_RankOrder, C14_Card(i).rank)

\* C14: the winner of a completed trick of four plays is the seat that played
\* the trump of the highest trump_rank_value when a trump was played, and
\* otherwise the seat that played the highest card (2 < 3 < ... < K < A) of
\* the lead suit; a card that is neither trump nor of the lead suit never
\* wins, whatever its rank and position.
C14_TrickWinner ==
  env.winner # NoSeat =>
    /\ env.winner = env.trick.plays[IF C14_Trumps # {} THEN C14_HighestTrump
                                    ELSE C14_HighestOfLeadSuit].seat
    /\ \A i \in 1..4 :
         (~C14_Card(i).is_trump /\ C14_Card(i).suit # env.trick.leadSuit)
           => env.winner # env.trick.plays[i].seat

\* a resolved trick without trump in which the last card played is off the
\* lead suit and outranks every card of the lead suit
C14_HighOffSuitLoses ==
  /\ env.winner # NoSeat
  /\ C14_Trumps = {}
  /\ C14_Card(4).suit # env.trick.leadSuit
  /\ \A i \in C14_LeadSuited :
       nonTrumpRankValue(C14_Card(4)) > nonTrumpRankValue(C14_Card(i))
  /\ env.winner = env.trick.plays[2].seat

\* ------------------------------------------------------------------ claim C15
\* the play of the trick history that call c names
C15_AccusedPlay(r, c) == r.trick_history[c.trick_index + 1].plays[c.play_index + 1]

\* what the record of the accused play says
C15_RecordSaysRenege(r, c) ==
  /\ C15_AccusedPlay(r, c).had_led_suit_before_play = "true"
  /\ C15_AccusedPlay(r, c).played_eff_suit # r.trick_history[c.trick_index + 1].lead_suit

C15_Gain(c, team) ==
  IF c.accuser_team = team THEN (IF c.confirmed THEN 3 ELSE -3)
  ELSE (IF c.confirmed THEN -3 ELSE 3)

RECURSIVE C15_Ledger(_, _, _)
C15_Ledger(calls, team, i) ==
  IF i > Len(calls) THEN 0 ELSE C15_Gain(calls[i], team) + C15_Ledger(calls, team, i + 1)

C15_LogAndLedger ==
  /\ \A i \in 1..Len(room.renege.calls) :
       /\ room.renege.calls[i].accuser_team # room.renege.calls[i].accused_team
       /\ room.renege.calls[i].confirmed <=> C15_RecordSaysRenege(room, room.renege.calls[i])
  /\ room.renege.adjustment.A = C15_Ledger(room.renege.calls, "A", 1)
  /\ room.renege.adjustment.B = C15_Ledger(room.renege.calls, "B", 1)
  /\ room.renege.adjustment.A + room.renege.adjustment.B = 0

\* a step that accepts a call
C15_AcceptedCallStep ==
  (room'.hand_number = room.hand_number
   /\ Len(room'.renege.calls) = Len(room.renege.calls) + 1)
    => /\ \A t \in {"A", "B"} :
            room'.renege.adjustment[t] =
              room.renege.adjustment[t]
                + C15_Gain(room'.renege.calls[Len(room'.renege.calls)], t)
       /\ room'.renege.calls[Len(room'.renege.calls)].confirmed
            <=> C15_RecordSaysRenege(room, room'.renege.calls[Len(room'.renege.calls)])

\* C15: an accepted renege call is confirmed exactly when the record of the
\* accused play says that the hand held a card of the lead effective suit
\* before the play and that the effective suit played differs from the lead
\* suit; a confirmed call gives the accuser's team +3 and the accused team
\* -3, a call that is not confirmed gives -3 and +3, so the two adjustments
\* always sum to 0.
C15_RenegeAdjudication == []C15_LogAndLedger /\ [][C15_AcceptedCallStep]_vars

\* the log of a hand holds a confirmed call and a call that was not confirmed
C15_ConfirmedAndFalseCall ==
  /\ \E i \in 1..Len(room.renege.calls) : room.renege.calls[i].confirmed
  /\ \E i \in 1..Len(room.renege.calls) :
       /\ ~room.renege.calls[i].confirmed
       /\ room.renege.calls[i].played_eff_suit # room.renege.calls[i].lead_suit

\* ------------------------------------------------------------------ claim C16
\* accepted calls of the hand with the given accusing team
C16_CallsBy(r, team) ==
  {i \in 1..Len(r.renege.calls) : r.renege.calls[i].accuser_team = team}

\* every call a seat of the team can raise against every play of the hand
C16_CallsOnHand(team) ==
  [accused_seat : Seats, hand_number : {room.hand_number},
   trick_index : 0..(tricksPerHand(room) - 1), play_index : 0..3]

C16_Refused(r) == r.error # "ok" /\ r.room = room

C16_AtMostThree ==
  /\ \A i \in 1..Len(room.renege.calls) :
       room.renege.calls[i].hand_number = room.hand_number
  /\ \A team \in {"A", "B"} :
       /\ Cardinality(C16_CallsBy(room, team)) <= 3
       /\ (room.phase = "playing" /\ Cardinality(C16_CallsBy(room, team)) = 3)
            => \A s \in teamSeats(team) : \A payload \in C16_CallsOnHand(team) :
                 /\ C16_Refused(validateAndApplyRenegeCall(room, s, payload))
                 /\ (payload.accused_seat \notin teamSeats(team)
                     /\ Len(room.trick_history) < tricksPerHand(room))
                      => validateAndApplyRenegeCall(room, s, payload).error
                           = "renege_call_limit_reached_for_team"

\* the step that starts the next hand
C16_NextHandStep ==
  room'.hand_number # room.hand_number
    => /\ room'.renege.calls = <<>>
       /\ room'.renege.adjustment = [A |-> 0, B |-> 0]

\* C16: within a hand each team has at most 3 accepted renege calls as
\* accuser, confirmed and false calls alike; a fourth call of that team in the
\* same hand is refused and leaves the ledger and the call log unchanged;
\* the log is empty again when the next hand starts.
C16_ThreeCallsPerTeam == []C16_AtMostThree /\ [][C16_NextHandStep]_vars

\* team A has used its three calls, one of them confirmed and one false,
\* and a play it has not called yet is on record
C16_ThreeCallsUsed ==
  /\ room.phase = "playing"
  /\ Cardinality(C16_CallsBy(room, "A")) = 3
  /\ \E i \in C16_CallsBy(room, "A") : room.renege.calls[i].confirmed
  /\ \E i \in C16_CallsBy(room, "A") : ~room.renege.calls[i].confirmed
  /\ Len(room.trick_history) = 2
  /\ \E t \in 0..1 : \E p \in 0..3 :
       /\ room.trick_history[t + 1].plays[p + 1].seat \in {2, 4}
       /\ ~existingCall(room.renege.calls, room.hand_number, t,
                        room.trick_history[t + 1].plays[p + 1].seat, p)

\* ------------------------------------------------------------------ claim C17
C17_Payloads ==
  [accused_seat : Seats, hand_number : {room.hand_number - 1, room.hand_number},
   trick_index : 0..(tricksPerHand(room) - 1), play_index : 0..3]

\* the conditions under which a call is to be refused
C17_RenegeOff == ~room.match_config.renege_on

C17_NotPlayingOrHandRecorded ==
  room.phase # "playing" \/ Len(room.trick_history) >= tricksPerHand(room)

C17_SameTeam(s, payload) == teamForSeat(s) = teamForSeat(payload.accused_seat)

C17_OtherHand(payload) == payload.hand_number # room.hand_number

C17_TrickNotRecorded(payload) ==
  \/ payload.trick_index + 1 > Len(room.trick_history)
  \/ Len(room.trick_history[payload.trick_index + 1].plays) # 4

C17_PlayNotByAccused(payload) ==
  /\ ~C17_TrickNotRecorded(payload)
  /\ room.trick_history[payload.trick_index + 1].plays[payload.play_index + 1].seat
       # payload.accused_seat

C17_AlreadyCalled(payload) ==
  \E i \in 1..Len(room.renege.calls) :
    /\ room.renege.calls[i].hand_number = payload.hand_number
    /\ room.renege.calls[i].trick_index = payload.trick_index
    /\ room.renege.calls[i].accused_seat = payload.accused_seat
    /\ room.renege.calls[i].play_index = payload.play_index

C17_MustRefuse(s, payload) ==
  \/ C17_RenegeOff
  \/ C17_NotPlayingOrHandRecorded
  \/ C17_SameTeam(s, payload)
  \/ C17_OtherHand(payload)
  \/ C17_TrickNotRecorded(payload)
  \/ C17_PlayNotByAccused(payload)
  \/ C17_AlreadyCalled(payload)

C17_Refused(r) ==
  /\ r.error # "ok"
  /\ r.room.renege = room.renege
  /\ r.room = room

C17_RefusalsLeaveLog ==
  \A s \in ClientSeats : \A payload \in C17_Payloads :
    C17_MustRefuse(s, payload)
      => C17_Refused(validateAndApplyRenegeCall(room, s, payload))

C17_NoTargetTwice ==
  \A i, j \in 1..Len(room.renege.calls) :
    (/\ room.renege.calls[i].hand_number = room.renege.calls[j].hand_number
     /\ room.renege.calls[i].trick_index = room.renege.calls[j].trick_index
     /\ room.renege.calls[i].accused_seat = room.renege.calls[j].accused_seat
     /\ room.renege.calls[i].play_index = room.renege.calls[j].play_index) => i = j

\* a step of the renege_call handler on which the log does not grow leaves
\* the ledger and the log as they were
C17_RefusedCallStep ==
  (room'.hand_number = room.hand_number
   /\ Len(room'.renege.calls) = Len(room.renege.calls))
    => room'.renege = room.renege

\* C17: a renege call is refused, and the adjustment ledger and the call log
\* stay as they were, when renege mode is off, when the phase is not playing
\* or every trick of the hand is recorded, when accuser and accused are of
\* the same team, when the hand number is not the current hand, when the
\* trick named is not a completed trick of four plays in the history, when
\* the play at the play index was not made by the accused seat, or when an
\* accepted call exists for the same hand, trick, accused seat and play index;
\* the log never holds two entries for the same target.
C17_RenegeCallRefusals ==
  [](C17_RefusalsLeaveLog /\ C17_NoTargetTwice) /\ [][C17_RefusedCallStep]_vars

\* a call is on the log while the hand goes on, so that the same call can be
\* raised once more
C17_CallOnLogMidHand ==
  /\ room.phase = "playing"
  /\ Len(room.trick_history) < tricksPerHand(room)
  /\ \E i \in 1..Len(room.renege.calls) :
       /\ room.renege.calls[i].accuser_seat = env.accuser
       /\ C17_AlreadyCalled([accused_seat |-> room.renege.calls[i].accused_seat,
                             hand_number |-> room.hand_number,
                             trick_index |-> room.renege.calls[i].trick_index,
                             play_index |-> room.renege.calls[i].play_index])

\* ------------------------------------------------------------------ claim C18
\* seat and card id of the plays of a trick
C18_CardsPlayed(plays) ==
  [i \in 1..Len(plays) |-> [seat |-> plays[i].seat, card_id |-> plays[i].card_id]]

\* a room without its hands, its plays reduced to the cards played
C18_ButHands(r) ==
  [r EXCEPT !.hands = [s \in Seats |-> <<>>],
            !.current_trick.plays = C18_CardsPlayed(@),
            !.trick_history = [t \in 1..Len(@) |->
                                 [@[t] EXCEPT !.plays = C18_CardsPlayed(@)]]]

\* C18: two rooms that differ only in the hidden hands (same cards played,
\* same bids, same scores) have the same public snapshot.
C18_SnapshotHidesHands ==
  C18_ButHands(room) = C18_ButHands(env.twin)
    => roomPublicState(room) = roomPublicState(env.twin)

\* ------------------------------------------------------------------ claim C19
C19_LeftAsItWas(r) == r.error # "ok" /\ r.room = room

\* C19: a bid_set or bid_confirm that arrives while the phase is neither
\* bidding nor negotiating (lobby, playing, complete) is refused and leaves
\* the room, its picks, its confirmed flags and the existence of a bidding
\* state included, exactly as it was.
C19_OutOfPhaseBidsRefused ==
  ~InBiddingPhases =>
    \A s \in Seats : Seated(s) =>
      /\ \A bid \in BidInputs : C19_LeftAsItWas(handleBidSet(room, s, bid))
      /\ C19_LeftAsItWas(handleBidConfirm(room, s))

\* ------------------------------------------------------------------ claim C20
\* C20: the hand that follows a resolved hand has the hand number increased
\* by exactly 1 and is dealt by the clockwise successor of the previous
\* dealer (1 -> 2 -> 3 -> 4 -> 1); the first-diamond probe chooses the dealer
\* of the first hand only.
C20_NextHandRotatesDealer ==
  [][(room.hand_number >= 1 /\ room'.hand_number # room.hand_number)
       => /\ room'.hand_number = room.hand_number + 1
          /\ room'.dealer_seat = nextSeatClockwise(room.dealer_seat)]_vars

\* ------------------------------------------------------------------ claim C21
\* the last plays of a first hand that bids itself: the turn seat and a card
\* of its hand, when three plays lie on the last trick of the hand
C21_LastPlays ==
  IF /\ room.phase = "playing"
     /\ room.hand_number = 1
     /\ room.match_config.first_hand_bids_itself
     /\ room.match_complete = "none"
     /\ room.turn_seat \in Seats
     /\ Len(room.trick_history) = tricksPerHand(room) - 1
     /\ Len(room.current_trick.plays) = 3
  THEN {<<room.turn_seat, room.hands[room.turn_seat][i]>> :
          i \in 1..Len(room.hands[room.turn_seat])}
  ELSE {}

\* the books of a team once the last play pc has closed the last trick
C21_FinalBooks(pc, team) ==
  LET last == [room.current_trick EXCEPT
                 !.plays = Append(@, [seat |-> pc[1], card_id |-> pc[2],
                                      had_led_suit_before_play |-> "true"])]
  IN  room.books[team]
        + (IF teamForSeat(determineTrickWinner(room.config, last)) = team
           THEN 1 ELSE 0)

C21_InstantWin(pc) ==
  \E team \in Teams : C21_FinalBooks(pc, team) >= InstantWinBooks(room)

\* what the last play does, with made(pc, team) the books the hand counts
C21_HandOutcome(made(_, _)) ==
  \A pc \in C21_LastPlays : \A seed \in Seeds(room) :
    LET r == playCardForSeat(room, pc[1], pc[2], seed)
        reached == \E team \in Teams :
                     r.room.match.score[team] >= room.match.target_score
    IN  /\ r.error = "ok"
        /\ \A team \in Teams :
             /\ r.room.match.score[team]
                  = room.match.score[team] + 10 * made(pc, team)
             /\ r.room.match.bags[team] = room.match.bags[team]
        /\ C21_InstantWin(pc)
             => /\ r.room.match_complete = "first_hand_10plus_books"
                /\ r.room.hand_number = 1
        /\ ~C21_InstantWin(pc) /\ reached
             => /\ r.room.match_complete = "target_score"
                /\ r.room.hand_number = 1
        /\ ~C21_InstantWin(pc) /\ ~reached
             => /\ r.room.match_complete = "none"
                /\ r.room.hand_number = 2
                /\ r.room.phase \in {"bidding", "negotiating"}

C21_BooksAndLedger(pc, team) ==
  C21_FinalBooks(pc, team) + room.renege.adjustment[team]

\* the first hand leaves the lobby for the playing phase, with no bidding
\* state
C21_NoBiddingStep ==
  (room.phase = "lobby" /\ room'.phase # "lobby"
     /\ room.match_config.first_hand_bids_itself)
    => /\ room'.phase = "playing"
       /\ room'.hand_number = 1
       /\ ~room'.bidding.exists

\* C21 (as amended): in first-hand-bids-itself mode the first hand goes from
\* the lobby straight to playing with no bidding state; each team's score
\* delta for that hand is 10 times the sum of its books and its renege
\* adjustment, bags untouched; if a team took the instant-win number of
\* books the match ends with first_hand_10plus_books whatever the scores,
\* this check being made before the target-score check, which otherwise
\* ends the match with target_score; otherwise hand 2 starts with bidding.
C21_FirstHandBidsItself ==
  /\ []C21_HandOutcome(C21_BooksAndLedger)
  /\ [][C21_NoBiddingStep]_vars

\* C21 (as stated): each team's score delta for the first hand is 10 times
\* its books.
C21_TenTimesBooks == C21_HandOutcome(C21_FinalBooks)

\* a first hand ended by the instant win although a score reached the target
C21_InstantWinAtTarget ==
  /\ room.match_complete = "first_hand_10plus_books"
  /\ room.hand_number = 1
  /\ \E team \in Teams : /\ room.match.score[team] >= room.match.target_score
                         /\ room.renege.adjustment[team] # 0

\* ------------------------------------------------------------------ claim C22
\* the line of the hand_scored message for a team
C22_Detail(team) == env.hand_scored.res.detail[team]

\* 200 for a bid of 10 or more under ten-for-two, else 10 times the bid
C22_Stake(bid) ==
  IF room.match_config.ten_for_two_enabled /\ bid >= 10 THEN 200 ELSE 10 * bid

C22_AsTabled(d) ==
  /\ scoreTeam(d.bid, d.made, room.match_config)
       = [points |-> d.base, bags_add |-> d.bags_add]
  /\ d.made >= d.bid => d.base = C22_Stake(d.bid) /\ d.bags_add = d.made - d.bid
  /\ d.made < d.bid => d.base = -C22_Stake(d.bid) /\ d.bags_add = 0

\* C22: scoreTeam(bid, made, cfg) gives, when ten-for-two is enabled and
\* bid >= 10, +200 with bags made - bid if made >= bid and -200 with no bags
\* if made < bid; in every other case +10*bid with bags made - bid if
\* made >= bid and -10*bid with no bags if made < bid.
C22_ScoreTeamTable == \A team \in Teams : C22_AsTabled(C22_Detail(team))

\* a played hand under ten-for-two in which one team makes a bid of 10 with
\* overtricks and the other is set on a bid of 10
C22_BonusMadeAndSet ==
  /\ env.hand_scored.mode = "played"
  /\ room.match_config.ten_for_two_enabled
  /\ \E made, set \in Teams :
       /\ C22_Detail(made).bid >= 10
       /\ C22_Detail(made).base = 200
       /\ C22_Detail(made).bags_add > 0
       /\ C22_Detail(set).bid >= 10
       /\ C22_Detail(set).base = -200
       /\ C22_Detail(set).bags_add = 0

\* ------------------------------------------------------------------ claim C23
\* the bag count handed to applyBagsPenalty for a team: the stored count plus
\* the bags of the hand
C23_BagsIn(team) ==
  env.before.bags[team]
    + (IF room.match_config.bags_enabled THEN C22_Detail(team).bags_add ELSE 0)

C23_Threshold == room.match_config.bags_penalty_at

C23_Rollover(team) ==
  LET out == applyBagsPenalty(C23_BagsIn(team), room.match_config)
  IN  /\ env.hand_scored.res.bags[team] = out.bags
      /\ C22_Detail(team).bag_penalty = out.penalty
      /\ room.match.bags[team] = out.bags
      /\ IF room.match_config.bags_enabled
         THEN /\ C23_Threshold >= 1
              /\ out.bags = C23_BagsIn(team) % C23_Threshold
              /\ out.penalty = -(room.match_config.bags_penalty_points
                                  * (C23_BagsIn(team) \div C23_Threshold))
              /\ room.match.bags[team] \in 0..(C23_Threshold - 1)
         ELSE /\ out.bags = C23_BagsIn(team)
              /\ out.penalty = 0
              /\ room.match.bags[team] = env.before.bags[team]

\* C23: with bags enabled, threshold t >= 1 and penalty p, applyBagsPenalty
\* returns bags mod t and the penalty -p * floor(bags / t) (13 bags with
\* t = 10 and p = 100 give 3 bags and -100), so after every scored hand each
\* team's stored bag count is in 0..t-1; with bags disabled the bag count is
\* unchanged and the penalty is 0.
C23_BagsRollover == \A team \in Teams : C23_Rollover(team)

\* a hand that brings a team to 13 bags at threshold 10: 3 bags stay and the
\* penalty is -100
C23_ThirteenBags ==
  /\ room.match_config.bags_enabled
  /\ C23_Threshold = 10
  /\ \E team \in Teams :
       /\ C23_BagsIn(team) = 13
       /\ room.match.bags[team] = 3
       /\ C22_Detail(team).bag_penalty = -100

\* ------------------------------------------------------------------ claim C24
C24_Truce(team) ==
  /\ room.match.score[team]
       = env.before.score[team] + C22_Stake(room.bidding.team_totals[team])
  /\ env.hand_scored.res.delta[team] = C22_Stake(room.bidding.team_totals[team])
  /\ room.match.score[team] >= env.before.score[team]
  /\ room.match.bags[team] = env.before.bags[team]

\* C24: a books-made resolution never lowers a team's match score and never
\* changes a team's bag count: each team's delta is +10 times its bid, or
\* +200 when ten-for-two applies to a bid of 10 or more, whatever bags the
\* team has accumulated.
C24_BooksMadeTruce ==
  env.hand_scored.mode = "books_made" => \A team \in Teams : C24_Truce(team)

\* a books-made hand of a team that holds bags from the hand before and of a
\* team whose total of 10 earns 200
C24_TruceWithBags ==
  /\ env.hand_scored.mode = "books_made"
  /\ room.match_config.bags_enabled
  /\ \E team \in Teams : env.before.bags[team] > 0
  /\ \E team \in Teams : /\ room.bidding.team_totals[team] >= 10
                         /\ env.hand_scored.res.delta[team] = 200

\* ------------------------------------------------------------------ claim C25
\* the minimum total bid of the match: the override when there is one, else
\* twice the board plus 3
C25_MinTotal ==
  IF room.match_config.min_total_bid # NoPick
  THEN room.match_config.min_total_bid
  ELSE 2 * room.match_config.board + 3

C25_Stage(r) == r.bidding.negotiation.stage

\* the bidding state of a hand carries the value from its creation on
C25_Carried ==
  room.bidding.exists =>
    /\ room.bidding.min_total_bid = C25_MinTotal
    /\ room.bidding.board = room.match_config.board
    /\ (room.match_config.min_total_bid = NoPick /\ room.bidding.board = 4)
         => room.bidding.min_total_bid = 11
    /\ C25_Stage(room) # "none" => room.bidding.negotiation.min_total_bid = C25_MinTotal

\* the both-confirmed check of the bidding phase
C25_BothConfirmedStep ==
  /\ (room.phase = "bidding" /\ room'.phase = "negotiating")
       => totalAll(room'.bidding) < C25_MinTotal
  /\ (room.phase = "bidding" /\ room'.phase = "playing")
       => room'.final_bids.A + room'.final_bids.B >= C25_MinTotal

\* the required total of the increasing team when one team takes books made
C25_RequiredIncreaseStep ==
  (C25_Stage(room) = "choose" /\ C25_Stage(room') = "one_books_waiting_accept")
    => room'.bidding.negotiation.required_increasing_team_total
         = Max(0, C25_MinTotal
                    - room'.bidding.team_totals[room'.bidding.negotiation.books_made_team])

\* the check after both teams have increased and locked again
C25_RelockStep ==
  (room.phase = "negotiating" /\ C25_Stage(room) = "both_increase_relock")
    => /\ room'.phase = "playing"
            => room'.final_bids.A + room'.final_bids.B >= C25_MinTotal
       /\ C25_Stage(room') = "choose" => totalAll(room'.bidding) < C25_MinTotal

\* C25: the minimum total bid is 2*board + 3 when the match has no override
\* (board 4 gives 11) and the configured min_total_bid when it has one; it is
\* fixed when the bidding state of the hand is created, and that value is the
\* one used by the both-confirmed check, the required-increase computation
\* and the re-lock check.
C25_MinTotalBid ==
  /\ []C25_Carried
  /\ [][/\ (room.bidding.exists /\ room'.bidding.exists
              /\ room'.hand_number = room.hand_number)
             => room'.bidding.min_total_bid = room.bidding.min_total_bid
         /\ C25_BothConfirmedStep
         /\ C25_RequiredIncreaseStep
         /\ C25_RelockStep]_vars

\* a hand under an override that differs from the board's value, in which a
\* re-lock has met the override
C25_RelockMeetsOverride ==
  /\ room.match_config.min_total_bid # NoPick
  /\ room.match_config.min_total_bid # 2 * room.match_config.board + 3
  /\ room.phase = "playing"
  /\ C25_Stage(room) = "resolved_to_play"
  /\ room.bidding.has_min_picks
  /\ room.final_bids.A + room.final_bids.B >= C25_MinTotal

\* ------------------------------------------------------------------ claim C26
\* the shuffled deck holds the cards of buildDeck, each once
C26_IsPermutation ==
  /\ Len(env.deck) = FullDeckSize
  /\ \A c \in {buildDeck(room.config)[i] : i \in 1..FullDeckSize} :
       Cardinality({i \in 1..FullDeckSize : env.deck[i] = c}) = 1

\* C26: on a shuffled deck of 52 cards determineFirstDealerSeat returns the
\* seat (i mod 4) + 1 of the smallest 0-based index i that holds a card of
\* suit D (D2 counts as a diamond), together with that card's id and the
\* index; for a permutation of a buildDeck deck the seat is in 1..4 and the
\* probe never fails for want of a diamond.
C26_FirstDiamondDeals ==
  env.probed =>
    /\ C26_IsPermutation
    /\ env.probe.error = "ok"
    /\ env.probe.dealer_seat \in Seats
    /\ env.probe.dealt_index \in 0..(FullDeckSize - 1)
    /\ env.deck[env.probe.dealt_index + 1].suit = "D"
    /\ \A j \in 0..(env.probe.dealt_index - 1) : env.deck[j + 1].suit # "D"
    /\ env.probe.dealer_seat = (env.probe.dealt_index % 4) + 1
    /\ env.probe.found_card_id = env.deck[env.probe.dealt_index + 1].id
    /\ determineFirstDealerSeat(env.deck) = env.probe.dealer_seat

\* the diamonds at the bottom of the deck with D2 the first of them: the
\* probe passes 39 cards and stops at D2
C26_DeuceOfDiamondsDeals ==
  /\ env.probed
  /\ env.probe.found_card_id = "D2"
  /\ env.probe.dealt_index = FullDeckSize - TricksInHand
  /\ env.probe.dealer_seat = 4

\* ------------------------------------------------------------------ claim C27
C27_Card(deck, id) == deck[CHOOSE i \in 1..Len(deck) : deck[i].id = id]

C27_Count(deck, id) == Cardinality({i \in 1..Len(deck) : deck[i].id = id})

C27_Jokers == {"JOKER_COLOR", "JOKER_BW"}

C27_Deuces == {"D2", "S2"}

\* the trumps from the highest down, for a configuration
C27_TrumpsDown(config) ==
  (IF config.big_joker = "bw" THEN <<"JOKER_BW", "JOKER_COLOR">>
   ELSE <<"JOKER_COLOR", "JOKER_BW">>)
  \o (IF config.big_deuce = "S2" THEN <<"S2", "D2">> ELSE <<"D2", "S2">>)
  \o <<"SA", "SK", "SQ", "SJ", "S10", "S9", "S8", "S7", "S6", "S5", "S4", "S3">>

C27_Composition(deck) ==
  /\ Len(deck) = 52
  /\ \A i, j \in 1..Len(deck) : i # j => deck[i].id # deck[j].id
  /\ C27_Count(deck, "H2") = 0 /\ C27_Count(deck, "C2") = 0
  /\ C27_Count(deck, "D2") = 1
  /\ Cardinality({i \in 1..Len(deck) : deck[i].is_joker}) = 2
  /\ \A id \in C27_Jokers : C27_Count(deck, id) = 1

C27_Trumps(deck, config) ==
  LET down == C27_TrumpsDown(config)
      spades == {i \in 1..Len(deck) : deck[i].suit = "S"}
      trumps == {i \in 1..Len(deck) : deck[i].is_trump}
  IN  /\ Cardinality(spades) = 13
      /\ trumps = spades \cup {i \in 1..Len(deck) :
                                 deck[i].id = "D2" \/ deck[i].id \in C27_Jokers}
      /\ Cardinality(trumps) = 16
      /\ Len(down) = 16
      /\ \A k \in 1..16 : C27_Card(deck, down[k]).trump_rank_value = 1000 - (k - 1)
      /\ {deck[i].trump_rank_value : i \in trumps} = 985..1000
      /\ \A i \in 1..Len(deck) : ~deck[i].is_trump => deck[i].trump_rank_value = 0

\* the deck of another configuration differs in the values of pair only,
\* and there the two values are exchanged
C27_SwapsOnly(deck, other, pair) ==
  /\ Len(other) = Len(deck)
  /\ \A i \in 1..Len(deck) :
       /\ other[i].id = deck[i].id
       /\ deck[i].id \notin pair => other[i] = deck[i]
       /\ deck[i].id \in pair =>
            /\ other[i] = [deck[i] EXCEPT !.trump_rank_value = other[i].trump_rank_value]
            /\ other[i].trump_rank_value # deck[i].trump_rank_value
            /\ \E j \in 1..Len(deck) :
                 /\ deck[j].id \in pair \ {deck[i].id}
                 /\ other[i].trump_rank_value = deck[j].trump_rank_value

\* C27: for each of the four configurations buildDeck returns 52 cards with
\* unique ids, no H2 and no C2, one D2 and the two jokers; is_trump holds for
\* exactly the 13 spades, D2 and the jokers; the 16 trumps carry the values
\* 1000 down to 985 in the order big joker, little joker, big deuce, little
\* deuce, S-A, S-K, ..., S-3 and every other card carries 0; changing
\* big_joker exchanges the values of the jokers only, changing big_deuce
\* those of D2 and S2 only.
C27_BuildDeck ==
  env.stage = "built" =>
    /\ env.deck = buildDeck(room.config)
    /\ C27_Composition(env.deck)
    /\ C27_Trumps(env.deck, room.config)
    /\ \A config \in DeckConfigs :
         /\ (config.big_joker # room.config.big_joker
               /\ config.big_deuce = room.config.big_deuce)
              => C27_SwapsOnly(env.deck, buildDeck(config), C27_Jokers)
         /\ (config.big_joker = room.config.big_joker
               /\ config.big_deuce # room.config.big_deuce)
              => C27_SwapsOnly(env.deck, buildDeck(config), C27_Deuces)

\* the deck built with the black-and-white joker and the deuce of spades big
C27_BuiltWithBothSwapped ==
  /\ env.stage = "built"
  /\ room.config = [big_joker |-> "bw", big_deuce |-> "S2"]
  /\ C27_Card(env.deck, "JOKER_BW").trump_rank_value = 1000
  /\ C27_Card(env.deck, "JOKER_COLOR").trump_rank_value = 999
  /\ C27_Card(env.deck, "S2").trump_rank_value = 998
  /\ C27_Card(env.deck, "D2").trump_rank_value = 997
  /\ C27_Card(env.deck, "S3").trump_rank_value = 985

\* ------------------------------------------------------------------ claim C28
C28_Clockwise(seat) == (seat % 4) + 1

\* the seat of the i-th play of a trick led by leader
C28_SeatOfPlay(leader, i) == ((leader + i - 2) % 4) + 1

C28_HandRuns ==
  room.phase = "playing" /\ Len(room.trick_history) < tricksPerHand(room)

\* a play_card of a seat that does not hold the turn is refused and leaves
\* the room as it was
C28_OutOfTurnRefused ==
  C28_HandRuns =>
    \A s \in Seats \ {room.turn_seat} : \A cardId \in CardInputs :
      LET r == playCardForSeat(room, s, cardId, 0)
      IN  r.error = "not_your_turn" /\ r.room = room

\* the trick on the table: led by the seat after the dealer or by the winner
\* of the trick before, played clockwise, its lead suit that of the first
\* card
C28_CurrentTrick ==
  C28_HandRuns =>
    LET ct == room.current_trick
        n == Len(ct.plays)
        done == Len(room.trick_history)
    IN  /\ room.turn_seat \in Seats
        /\ n < 4
        /\ ct.leaderSeat = IF done = 0 THEN C28_Clockwise(room.dealer_seat)
                           ELSE room.trick_history[done].winner_seat
        /\ \A i \in 1..n : ct.plays[i].seat = C28_SeatOfPlay(ct.leaderSeat, i)
        /\ room.turn_seat = C28_SeatOfPlay(ct.leaderSeat, n + 1)
        /\ ct.leadSuit = IF n = 0 THEN "none"
                         ELSE effectiveSuit(CardOf(room.config, ct.plays[1].card_id))

\* the archived tricks: four plays, one of each seat, clockwise from the
\* leader, who is the winner of the trick before
C28_ArchivedTricks ==
  room.phase = "playing" =>
    \A k \in 1..Len(room.trick_history) :
      LET row == room.trick_history[k]
      IN  /\ Len(row.plays) = 4
          /\ {row.plays[i].seat : i \in 1..4} = Seats
          /\ \A i \in 1..4 : row.plays[i].seat = C28_SeatOfPlay(row.leader_seat, i)
          /\ row.lead_suit = effectiveSuit(CardOf(room.config, row.plays[1].card_id))
          /\ row.winner_seat \in Seats
          /\ row.leader_seat = IF k = 1 THEN C28_Clockwise(room.dealer_seat)
                               ELSE room.trick_history[k - 1].winner_seat

\* a play that does not close the trick passes the turn clockwise and keeps
\* the lead suit; the play that closes it gives the lead and the turn to the
\* winner
C28_PlayStep ==
  (C28_HandRuns /\ room'.phase = "playing" /\ room'.hand_number = room.hand_number
     /\ room'.hands # room.hands)
    => LET n == Len(room.current_trick.plays)
       IN  /\ n < 3 =>
                /\ Len(room'.current_trick.plays) = n + 1
                /\ room'.current_trick.plays[n + 1].seat = room.turn_seat
                /\ room'.turn_seat = C28_Clockwise(room.turn_seat)
                /\ n > 0 => room'.current_trick.leadSuit = room.current_trick.leadSuit
           /\ n = 3 =>
                /\ Len(room'.trick_history) = Len(room.trick_history) + 1
                /\ room'.trick_history[Len(room'.trick_history)].lead_suit
                     = room.current_trick.leadSuit
                /\ Len(room'.trick_history) < tricksPerHand(room) =>
                     /\ room'.current_trick.plays = <<>>
                     /\ room'.turn_seat
                          = room'.trick_history[Len(room'.trick_history)].winner_seat
                     /\ room'.current_trick.leaderSeat = room'.turn_seat

\* C28: a playCard from a seat other than turn_seat is rejected with no
\* state change; the first leader of a hand is the seat clockwise-next to the
\* dealer; within a trick the turn passes clockwise, so each of the four
\* seats plays exactly once; the lead suit is the effective suit of the
\* first play and does not change during the trick; the winner of a trick is
\* the leader, and the turn seat, of the next trick.
C28_TurnOrder ==
  /\ [](C28_OutOfTurnRefused /\ C28_CurrentTrick /\ C28_ArchivedTricks)
  /\ [][C28_PlayStep]_vars

\* the second trick under way, led by the winner of the first, who is
\* neither the leader of the first trick nor the seat after that leader
C28_WinnerLeadsOn ==
  /\ C28_HandRuns
  /\ Len(room.trick_history) = 1
  /\ Len(room.current_trick.plays) = 2
  /\ room.trick_history[1].winner_seat
       \notin {room.trick_history[1].leader_seat,
               C28_Clockwise(room.trick_history[1].leader_seat)}
  /\ room.current_trick.leaderSeat = room.trick_history[1].winner_seat

\* ------------------------------------------------------------------ claim C29
C29_Archived == Len(room.trick_history)

C29_TeamOfSeat(seat) == IF seat \in {1, 3} THEN "A" ELSE "B"

\* tricks of the archive that a seat of the team won
C29_Won(team) ==
  Cardinality({k \in 1..C29_Archived :
                 C29_TeamOfSeat(room.trick_history[k].winner_seat) = team})

C29_BooksAreArchive ==
  /\ room.books.A + room.books.B = C29_Archived
  /\ \A team \in Teams : room.books[team] = C29_Won(team)
  /\ \A k \in 1..C29_Archived :
       /\ room.trick_history[k].trick_index = k - 1
       /\ room.trick_history[k].winner_team
            = C29_TeamOfSeat(room.trick_history[k].winner_seat)

\* a trick completed within the hand adds one book to the team of its winner
C29_BookStep ==
  (room'.hand_number = room.hand_number /\ Len(room'.trick_history) # C29_Archived)
    => LET row == room'.trick_history[Len(room'.trick_history)]
       IN  /\ Len(room'.trick_history) = C29_Archived + 1
           /\ room'.books[row.winner_team] = room.books[row.winner_team] + 1
           /\ room'.books[otherTeam(row.winner_team)]
                = room.books[otherTeam(row.winner_team)]

\* C29 (as amended): in every reachable state books.A + books.B is the
\* number of tricks archived in the trick history, and each completed trick
\* adds exactly one book to the team of its winner; trick_index equals that
\* number while the hand has tricks left, and stays at the index of the last
\* trick once the last trick of the hand is archived.
C29_BooksCountTricks ==
  /\ [](/\ C29_BooksAreArchive
        /\ C29_Archived < tricksPerHand(room) => room.trick_index = C29_Archived
        /\ C29_Archived >= tricksPerHand(room)
             => room.trick_index = tricksPerHand(room) - 1)
  /\ [][C29_BookStep]_vars

\* C29 (as stated): in every reachable state of a hand books.A + books.B =
\* trick_index = number of tricks archived.
C29_BooksEqualTrickIndex ==
  room.hand_number >= 1 =>
    /\ room.books.A + room.books.B = room.trick_index
    /\ room.trick_index = C29_Archived

\* the hand that ended the match: every trick archived and booked, the trick
\* index one short
C29_LastTrickArchived ==
  /\ room.match_complete # "none"
  /\ C29_Archived = tricksPerHand(room)
  /\ room.books.A + room.books.B = tricksPerHand(room)
  /\ room.books.A > 0 /\ room.books.B > 0
  /\ room.trick_index = tricksPerHand(room) - 1

\* ------------------------------------------------------------------ claim C30
C30_Ids(seq) == {seq[i] : i \in 1..Len(seq)}

C30_DeckIds(deck) == {deck[i].id : i \in 1..Len(deck)}

\* a deal of a deck: the seats get hands of equal length, pairwise disjoint,
\* that make up the deck, seat s the positions i with i mod 4 = s - 1
C30_IsDealOf(hands, deck) ==
  /\ \A s \in Seats :
       /\ Len(hands[s]) = Len(deck) \div 4
       /\ Cardinality(C30_Ids(hands[s])) = Len(hands[s])
       /\ \A n \in 1..Len(hands[s]) : hands[s][n] = deck[4 * (n - 1) + s].id
       /\ C30_Ids(hands[s]) = {deck[i + 1].id : i \in {j \in 0..(Len(deck) - 1) :
                                                        j % 4 = s - 1}}
  /\ \A s, t \in Seats : s # t => C30_Ids(hands[s]) \cap C30_Ids(hands[t]) = {}
  /\ UNION {C30_Ids(hands[s]) : s \in Seats} = C30_DeckIds(deck)

\* the cards of the hand being played
C30_HandDeck == modelDeck(room.config, tricksPerHand(room))

C30_JustDealt ==
  /\ room.phase = "playing"
  /\ room.trick_history = <<>>
  /\ room.current_trick.plays = <<>>

\* right after the deal the hands are a deal of one of the shuffles; so is
\* the deal of the full deck, 13 cards to each seat
C30_Deal ==
  C30_JustDealt =>
    /\ \E seed \in Seeds(room) :
         /\ room.hands = dealHands(shuffleDeck(C30_HandDeck, seed))
         /\ C30_IsDealOf(room.hands, shuffleDeck(C30_HandDeck, seed))
    /\ \A s \in Seats : Len(room.hands[s]) = tricksPerHand(room)
    /\ \A seed \in Seeds(room) :
         LET full == shuffleDeck(buildDeck(room.config), seed)
         IN  /\ Len(full) = 52
             /\ C30_IsDealOf(dealHands(full), full)
             /\ \A s \in Seats : Len(dealHands(full)[s]) = 13

\* the cards in the hands, on the table and in the archive
C30_InHands == UNION {C30_Ids(room.hands[s]) : s \in Seats}

C30_OnTable ==
  {room.current_trick.plays[i].card_id : i \in 1..Len(room.current_trick.plays)}

C30_InArchive ==
  UNION {{room.trick_history[k].plays[i].card_id : i \in 1..4} :
         k \in 1..Len(room.trick_history)}

C30_HandsTotal ==
  Len(room.hands[1]) + Len(room.hands[2]) + Len(room.hands[3]) + Len(room.hands[4])

\* every card of the deck lies in exactly one place, once
C30_Partition ==
  /\ C30_InHands \cup C30_OnTable \cup C30_InArchive = C30_DeckIds(C30_HandDeck)
  /\ C30_HandsTotal + Len(room.current_trick.plays) + 4 * Len(room.trick_history)
       = Len(C30_HandDeck)

\* once the last trick is archived the hands are empty, the archive holds the
\* deck, and the table still shows the plays of the last trick
C30_AfterLastTrick ==
  /\ C30_InHands = {}
  /\ C30_InArchive = C30_DeckIds(C30_HandDeck)
  /\ 4 * Len(room.trick_history) = Len(C30_HandDeck)
  /\ \A i \in 1..4 :
       room.current_trick.plays[i].card_id
         = room.trick_history[Len(room.trick_history)].plays[i].card_id

\* a play of a card the seat does not hold is refused
C30_OnlyHeldCards ==
  \A s \in Seats : \A cardId \in CardInputs \ C30_Ids(room.hands[s]) :
    LET r == playCardForSeat(room, s, cardId, 0)
    IN  r.error # "ok" /\ r.room = room

\* a card leaves a hand only as the accepted play of the seat on turn
C30_LeavesByPlayStep ==
  (room.phase = "playing" /\ room'.hand_number = room.hand_number
     /\ room'.hands # room.hands)
    => LET s == room.turn_seat
           n == Len(room.current_trick.plays)
           gone == C30_Ids(room.hands[s]) \ C30_Ids(room'.hands[s])
           newest == IF n < 3 THEN room'.current_trick.plays[n + 1]
                     ELSE room'.trick_history[Len(room'.trick_history)].plays[4]
       IN  /\ \A t \in Seats \ {s} : room'.hands[t] = room.hands[t]
           /\ Len(room'.hands[s]) = Len(room.hands[s]) - 1
           /\ C30_Ids(room'.hands[s]) \subseteq C30_Ids(room.hands[s])
           /\ gone = {newest.card_id}
           /\ newest.seat = s
           /\ playCardForSeat(room, s, newest.card_id, 0).error = "ok"

C31_OnTurn == ensurePlayingTurnInitialized(room)

\* the row that an accepted play of after adds: on the table, or in the
\* archive when the play closed the trick
C31_Newest(before, after) ==
  IF Len(before.current_trick.plays) < 3
  THEN after.current_trick.plays[Len(before.current_trick.plays) + 1]
  ELSE after.trick_history[Len(after.trick_history)].plays[4]

\* whether the hand holds a card of the suit, as "true" / "false"
C31_Held(r, hand, suit) ==
  IF \E i \in 1..Len(hand) : effectiveSuit(CardOf(r.config, hand[i])) = suit
  THEN "true" ELSE "false"

\* the accepted play of the seat on turn is kept in the hand of the same
\* hand number
C31_Kept(before, res) ==
  res.error = "ok" /\ res.room.hand_number = before.hand_number

\* renege mode on: every card of the hand of the seat on turn is accepted
C31_AnyCardAccepted ==
  (C28_HandRuns /\ isRenegeOn(room)) =>
    LET r == C31_OnTurn
    IN  \A i \in 1..Len(r.hands[r.turn_seat]) :
          playCardForSeat(room, r.turn_seat, r.hands[r.turn_seat][i], 0).error = "ok"

\* a play that follows a lead records whether the hand before the play held
\* the lead suit; the lead itself records no value
C31_RecordedAtPlay ==
  C28_HandRuns =>
    LET r == C31_OnTurn
        hand == r.hands[r.turn_seat]
    IN  \A i \in 1..Len(hand) :
          LET res == playCardForSeat(room, r.turn_seat, hand[i], 0)
          IN  C31_Kept(r, res) =>
                 C31_Newest(r, res.room).had_led_suit_before_play
                   = IF r.current_trick.leadSuit = "none" THEN "null"
                     ELSE C31_Held(r, hand, r.current_trick.leadSuit)

\* the archived row carries the values recorded on the table and the
\* effective suit of every card played
C31_ArchivedAsRecorded ==
  (C28_HandRuns /\ Len(room.current_trick.plays) = 3) =>
    LET hand == room.hands[room.turn_seat]
    IN  \A i \in 1..Len(hand) :
          LET res == playCardForSeat(room, room.turn_seat, hand[i], 0)
              row == res.room.trick_history[Len(res.room.trick_history)]
          IN  C31_Kept(room, res) =>
                /\ \A k \in 1..3 :
                     /\ row.plays[k].card_id = room.current_trick.plays[k].card_id
                     /\ row.plays[k].had_led_suit_before_play
                          = room.current_trick.plays[k].had_led_suit_before_play
                /\ row.plays[4].card_id = hand[i]
                /\ \A k \in 1..4 :
                     row.plays[k].played_eff_suit
                       = effectiveSuit(CardOf(room.config, row.plays[k].card_id))

\* C31: with renege mode on, a play by the seat on turn of any card of its
\* hand is accepted whatever the lead suit and the spades-broken flag are; a
\* play that follows a lead records whether the hand just before the play
\* (the played card included) held a card of the lead effective suit, the lead
\* play itself records no value, and the archived trick carries these values
\* and the effective suit of every card played
C31_RenegeOnAcceptsAndRecords ==
  C31_AnyCardAccepted /\ C31_RecordedAtPlay /\ C31_ArchivedAsRecorded

\* C31 as stated: every play, the lead included, records whether the hand
\* before the play held a card of the lead effective suit of the trick
C31_EveryPlayRecordsHeld ==
  C28_HandRuns =>
    LET r == C31_OnTurn
        hand == r.hands[r.turn_seat]
    IN  \A i \in 1..Len(hand) :
          LET res == playCardForSeat(room, r.turn_seat, hand[i], 0)
              lead == IF r.current_trick.leadSuit = "none"
                      THEN effectiveSuit(CardOf(r.config, hand[i]))
                      ELSE r.current_trick.leadSuit
          IN  C31_Kept(r, res) =>
                 C31_Newest(r, res.room).had_led_suit_before_play
                   = C31_Held(r, hand, lead)

\* renege mode on and a trick archived in which a seat that held the lead
\* suit played another suit, the lead of that trick recorded without a value
C31_OffSuitAccepted ==
  /\ isRenegeOn(room)
  /\ \E t \in 1..Len(room.trick_history) :
       /\ \E k \in 2..4 :
            /\ room.trick_history[t].plays[k].had_led_suit_before_play = "true"
            /\ room.trick_history[t].plays[k].played_eff_suit
                 # room.trick_history[t].lead_suit
       /\ room.trick_history[t].plays[1].had_led_suit_before_play = "null"

\* ---------------------------------------------------------------------- C32
\* the last plays of a hand that was bid: the seat on turn and a card of its
\* hand, when 3 cards of the last trick are on the table
C32_LastPlays ==
  IF /\ room.phase = "playing"
     /\ ~shouldFirstHandBidItself(room)
     /\ room.match_complete = "none"
     /\ room.turn_seat \in Seats
     /\ Len(room.trick_history) = tricksPerHand(room) - 1
     /\ Len(room.current_trick.plays) = 3
  THEN {<<room.turn_seat, room.hands[room.turn_seat][i]>> :
          i \in 1..Len(room.hands[room.turn_seat])}
  ELSE {}

\* the made value of a team when the last play pc has closed the last trick:
\* its books and its renege adjustment
C32_Made(pc, team) == C21_FinalBooks(pc, team) + room.renege.adjustment[team]

\* the hand is scored on the final bids and the made values
C32_ScoredOnMade ==
  \A pc \in C32_LastPlays : \A seed \in Seeds(room) :
    LET r == playCardForSeat(room, pc[1], pc[2], seed)
        res == scoreHand(room.final_bids.A, room.final_bids.B,
                         C32_Made(pc, "A"), C32_Made(pc, "B"),
                         room.match, room.match_config)
    IN  /\ r.error = "ok"
        /\ \A team \in Teams :
             /\ r.room.match.score[team] = room.match.score[team] + res.delta[team]
             /\ r.room.match.bags[team] = res.bags[team]

\* the two made values share the tricks of the hand
C32_MadeSum ==
  \A pc \in C32_LastPlays :
    C32_Made(pc, "A") + C32_Made(pc, "B") = tricksPerHand(room)

C32_LedgerZeroSum ==
  room.renege.adjustment.A + room.renege.adjustment.B = 0

\* C32: when a played hand is scored, the made value passed to scoring for
\* each team is its raw books plus its renege adjustment; the adjustments sum
\* to 0, so made(A) + made(B) is the number of tricks of the hand at every
\* played-hand scoring
C32_MadeIsBooksPlusLedger ==
  C32_ScoredOnMade /\ C32_MadeSum /\ C32_LedgerZeroSum

\* a hand that was bid has been played to its last trick and scored with a
\* renege call applied to the ledger, and the score ended the match
C32_ScoredWithLedger ==
  /\ room.match_complete = "target_score"
  /\ ~shouldFirstHandBidItself(room)
  /\ Len(room.trick_history) = tricksPerHand(room)
  /\ room.renege.adjustment.A # 0
  /\ room.match.score.A # 10 * room.final_bids.A + (room.books.A - room.final_bids.A)

\* ---------------------------------------------------------------------- C33
\* the bids a seat can send to handleBidSet
C33_Bids == 0..13

\* the teams that have confirmed in the current lock cycle
C33_Confirmed(r) ==
  IF r.bidding.exists THEN {team \in Teams : r.bidding.confirmed[team]} ELSE {}

\* the bid is below the pick the seat has to hold in a negotiation
C33_BelowBaseline(s, v) ==
  /\ room.phase = "negotiating"
  /\ room.bidding.has_min_picks
  /\ v < pickOrZero(room.bidding.min_picks[s])

\* every setBid of a seat of a confirmed team is rejected and leaves the room
\* as it was; the error is team_already_confirmed unless the bid is below the
\* seat's baseline in a negotiation
C33_SetBidRejected ==
  \A team \in C33_Confirmed(room) : \A s \in teamSeats(team) : \A v \in C33_Bids :
    LET r == handleBidSet(room, s, v)
    IN  /\ r.room = room
        /\ r.error = IF C33_BelowBaseline(s, v)
                     THEN "negotiation_must_increase_or_hold"
                     ELSE "team_already_confirmed"

\* while a team stays confirmed in a hand, its picks and its total stay
C33_ConfirmedStaysStep ==
  \A team \in C33_Confirmed(room) \cap C33_Confirmed(room') :
    room'.hand_number = room.hand_number =>
      /\ \A s \in teamSeats(team) : room'.bidding.picks[s] = room.bidding.picks[s]
      /\ room'.bidding.team_totals[team] = room.bidding.team_totals[team]

\* C33: once a team has confirmed in the current lock cycle, every setBid by
\* either of its seats is rejected until the confirmed flags are reset, with
\* team_already_confirmed, or with negotiation_must_increase_or_hold when
\* the bid is below the seat's baseline in a negotiation; a confirmed team's
\* picks and total stay as they were at the moment of confirmation
C33_ConfirmedTeamIsFrozen ==
  []C33_SetBidRejected /\ [][C33_ConfirmedStaysStep]_vars

\* C33 as stated: every such setBid is rejected with team_already_confirmed
C33_AlwaysTeamAlreadyConfirmed ==
  \A team \in C33_Confirmed(room) : \A s \in teamSeats(team) : \A v \in C33_Bids :
    handleBidSet(room, s, v).error = "team_already_confirmed"

\* a team has confirmed again in the re-lock loop of a negotiation and one of
\* its seats holds a baseline above the lowest bid
C33_ConfirmedInRelock ==
  /\ room.phase = "negotiating"
  /\ room.bidding.negotiation.stage = "both_increase_relock"
  /\ \E team \in C33_Confirmed(room) : \E s \in teamSeats(team) :
       /\ C33_BelowBaseline(s, 0)
       /\ handleBidSet(room, s, MaxBid).error = "team_already_confirmed"

\* ---------------------------------------------------------------------- C34
\* the negotiation stage of a room in phase negotiating
C34_Stage(r) == IF r.phase = "negotiating" THEN r.bidding.negotiation.stage ELSE "none"

\* the team that chose books made, read from the two choices
C34_BooksTeam(r) ==
  IF r.bidding.negotiation.choices.A = "books_made" THEN "A" ELSE "B"

\* stage one_books_waiting_accept: one team chose books made and the other
\* increase; the books-made team's seats are refused with
\* negotiation_other_team_locked, and the required total of the increasing
\* team is the minimum total less the total of the books-made team
C34_WaitingAccept ==
  C34_Stage(room) = "one_books_waiting_accept" =>
    LET n == room.bidding.negotiation
        booksTeam == C34_BooksTeam(room)
    IN  /\ n.choices[booksTeam] = "books_made"
        /\ n.choices[otherTeam(booksTeam)] = "increase"
        /\ n.books_made_team = booksTeam
        /\ n.increasing_team = otherTeam(booksTeam)
        /\ room.bidding.editable_team = n.increasing_team
        /\ n.required_increasing_team_total
             = Max(0, room.bidding.min_total_bid - room.bidding.team_totals[booksTeam])
        /\ room.bidding.team_totals[booksTeam]
             = pickOrZero(room.bidding.picks[IF booksTeam = "A" THEN 1 ELSE 2])
                 + pickOrZero(room.bidding.picks[IF booksTeam = "A" THEN 3 ELSE 4])
        /\ \A s \in Seats : \A v \in C33_Bids :
             LET r == handleBidSet(room, s, v)
             IN  IF seatToTeam(s) = booksTeam
                 THEN r.error = "negotiation_other_team_locked" /\ r.room = room
                 ELSE \A t \in Seats \ {s} :
                        r.room.bidding.picks[t] = room.bidding.picks[t]

\* stage choose: no seat can change a pick
C34_Choose ==
  C34_Stage(room) = "choose" =>
    \A s \in Seats : \A v \in C33_Bids :
      LET r == handleBidSet(room, s, v)
      IN  r.error = "negotiation_choose_stage_no_bid_edit" /\ r.room = room

\* while the stage lasts the books-made team keeps its picks and its total;
\* in stage choose every pick stays
C34_Step ==
  /\ (C34_Stage(room) = "one_books_waiting_accept"
        /\ C34_Stage(room') = "one_books_waiting_accept")
       => LET booksTeam == C34_BooksTeam(room)
          IN  /\ room'.bidding.team_totals[booksTeam]
                   = room.bidding.team_totals[booksTeam]
              /\ \A s \in Seats : seatToTeam(s) = booksTeam =>
                   room'.bidding.picks[s] = room.bidding.picks[s]
              /\ room'.bidding.negotiation.required_increasing_team_total
                   = room.bidding.negotiation.required_increasing_team_total
  /\ (C34_Stage(room) = "choose" /\ C34_Stage(room') = "choose")
       => room'.bidding.picks = room.bidding.picks

\* C34: in stage one-team-waiting-accept only seats of the increasing team
\* can change a pick; a setBid from a seat of the books-made team is rejected
\* with negotiation_other_team_locked, so the books-made team's total stays
\* the locked total from which the required increase was computed; in stage
\* choose no seat can change a pick
C34_BooksMadeTeamLocked ==
  [](C34_WaitingAccept /\ C34_Choose) /\ [][C34_Step]_vars

\* the increasing team has raised a pick while the other team waits for its
\* answer
C34_IncreasingTeamRaised ==
  /\ C34_Stage(room) = "one_books_waiting_accept"
  /\ room.bidding.negotiation.required_increasing_team_total > 0
  /\ \E s \in Seats :
       /\ seatToTeam(s) = room.bidding.negotiation.increasing_team
       /\ room.bidding.has_min_picks
       /\ room.bidding.picks[s] > room.bidding.min_picks[s]

\* ---------------------------------------------------------------------- C35
\* the step is a tick: the timer fires and maybeBotAct runs
C35_IsTick ==
  /\ room.botTicksPending > 0
  /\ \E seed \in Seeds(room) : room' = maybeBotAct(botTimerFires(room), seed)

\* a bot seat has moved within the hand: a card has left its hand or its pick
\* has changed
C35_BotMoved ==
  /\ room'.hand_number = room.hand_number
  /\ \E s \in Seats :
       /\ isBotSeat(room, s)
       /\ \/ room'.hands[s] # room.hands[s]
          \/ /\ room.bidding.exists /\ room'.bidding.exists
             /\ room'.bidding.picks[s] # room.bidding.picks[s]

\* a bot moves only in a tick
C35_BotMovesInTickStep == C35_BotMoved => C35_IsTick

\* at most one timer is pending, and the flag says whether one is
C35_OnePending ==
  /\ room.botTicksPending \in {0, 1}
  /\ room.botTickScheduled <=> room.botTicksPending = 1

\* a tick in phase lobby or complete changes nothing and sets no timer
C35_IdleTick ==
  (room.botTicksPending > 0 /\ room.phase \in {"lobby", "complete"}) =>
    \A seed \in Seeds(room) :
      maybeBotAct(botTimerFires(room), seed) = botTimerFires(room)

\* C35: a bot's action is never executed inside the handler of the action
\* that triggered it: bot seats move only in the tick that scheduleBotAct set
\* as a timer, at most one tick is pending per room at any time, and a tick
\* does nothing when the phase is lobby or complete
C35_BotsActInTicks ==
  [](C35_OnePending /\ C35_IdleTick) /\ [][C35_BotMovesInTickStep]_vars

\* a bot has played a card in a tick, and the broadcast of that play has set
\* the next tick
C35_BotPlayedInTick ==
  /\ room.phase = "playing"
  /\ room.botTicksPending = 1
  /\ \E i \in 1..Len(room.current_trick.plays) :
       isBotSeat(room, room.current_trick.plays[i].seat)

\* ---------------------------------------------------------------------- C36
\* the teams with a connected human at one of their seats
C36_HumanTeams(r) == {team \in Teams : teamHasHuman(r, team)}

\* the negotiation of a room in phase negotiating
C36_Negotiating(r) == r.phase = "negotiating" /\ r.bidding.exists

\* a tick leaves the choice of a team with a human as it is, and gives no
\* response for it
C36_TickSkipsHumanTeams ==
  (C36_Negotiating(room) /\ room.botTicksPending > 0) =>
    \A seed \in Seeds(room) : \A team \in C36_HumanTeams(room) :
      LET r == maybeBotAct(botTimerFires(room), seed)
          n == room.bidding.negotiation
      IN  /\ r.hand_number = room.hand_number
               => r.bidding.negotiation.choices[team] = n.choices[team]
          /\ (n.stage = "one_books_waiting_accept" /\ n.increasing_team = team)
               => /\ r.phase = "negotiating"
                  /\ r.bidding = room.bidding

\* the choice of a team with a human is set only by the negotiation_choice
\* of a connected seat of the team
C36_ChoiceStep ==
  \A team \in C36_HumanTeams(room) :
    (/\ C36_Negotiating(room)
     /\ room'.bidding.negotiation.choices[team]
          \notin {"none", room.bidding.negotiation.choices[team]})
      => \E s \in teamSeats(team) : \E choice \in {"books_made", "increase"} :
           \E seed \in Seeds(room) :
             /\ room.seats[s].ws
             /\ handleNegotiationChoice(room, s, choice).error = "ok"
             /\ room' = maybeAutoResolveNegotiation(
                          sendState(handleNegotiationChoice(room, s, choice).room), seed)

\* the stage that waits for the answer of a team with a human ends only by
\* the negotiation_response of a connected seat of the team
C36_ResponseStep ==
  \A team \in C36_HumanTeams(room) :
    (/\ C36_Negotiating(room)
     /\ room.bidding.negotiation.stage = "one_books_waiting_accept"
     /\ room.bidding.negotiation.increasing_team = team
     /\ room'.match_complete = room.match_complete
     /\ ~(/\ C36_Negotiating(room')
          /\ room'.bidding.negotiation.stage = "one_books_waiting_accept"))
      => \E s \in teamSeats(team) : \E accept \in BOOLEAN : \E seed \in Seeds(room) :
           /\ room.seats[s].ws
           /\ handleNegotiationResponse(room, s, accept).error = "ok"
           /\ room' = maybeAutoResolveNegotiation(
                        sendState(ensurePlayingTurnInitialized(
                          handleNegotiationResponse(room, s, accept).room)), seed)

\* C36: during negotiation a bot seat submits a negotiation choice or an
\* accept/decline response only if neither seat of its team is occupied by a
\* connected human; for a team with at least one human, the team's choice
\* and response are only ever set by that human's actions
C36_BotsNegotiateForBotTeams ==
  []C36_TickSkipsHumanTeams /\ [][C36_ChoiceStep /\ C36_ResponseStep]_vars

\* a negotiation in which a bot has chosen for a team of two bots while the
\* bot of the other team waits for its human partner
C36_BotChoseHumanPending ==
  /\ C36_Negotiating(room)
  /\ room.bidding.negotiation.stage = "choose"
  /\ \E team \in Teams \ C36_HumanTeams(room) :
       /\ room.bidding.negotiation.choices[team] # "none"
       /\ room.bidding.negotiation.choices[otherTeam(team)] = "none"
       /\ \E s \in teamSeats(otherTeam(team)) : isBotSeat(room, s)
       /\ otherTeam(team) \in C36_HumanTeams(room)

\* ---------------------------------------------------------------------- C37
\* the room plays a hand that was bid
C37_PlaysBidHand(r) == r.phase = "playing" /\ ~shouldFirstHandBidItself(r)

\* the final bids meet the minimum total of the hand and each the board
C37_FinalBidsMeet(r) ==
  /\ r.final_bids.A + r.final_bids.B >= r.bidding.min_total_bid
  /\ \A team \in Teams : r.final_bids[team] >= getBoard(r)

\* the stage the negotiation of a room is in, "none" in phase bidding
C37_Route(r) ==
  IF r.phase = "bidding" THEN "none" ELSE r.bidding.negotiation.stage

\* a hand enters playing on one of three routes: both teams confirmed in
\* bidding, the increasing team accepted, or both teams confirmed again in
\* the re-lock; the final bids are the team totals then
C37_EntersPlayingStep ==
  (room.phase \in {"bidding", "negotiating"} /\ room'.phase = "playing"
     /\ room'.hand_number = room.hand_number)
    => /\ C37_Route(room) \in {"none", "one_books_waiting_accept", "both_increase_relock"}
       /\ room'.final_bids = room'.bidding.team_totals
       /\ C37_FinalBidsMeet(room')
       /\ C37_Route(room) = "one_books_waiting_accept"
            => room'.final_bids[room.bidding.negotiation.books_made_team]
                 = room.bidding.team_totals[room.bidding.negotiation.books_made_team]
       /\ C37_Route(room) # "one_books_waiting_accept"
            => room'.bidding.confirmed = [A |-> TRUE, B |-> TRUE]

\* the final bids stay while the hand is played
C37_FinalBidsStayStep ==
  (C37_PlaysBidHand(room) /\ C37_PlaysBidHand(room')
     /\ room'.hand_number = room.hand_number)
    => room'.final_bids = room.final_bids

\* C37: whenever the room is in phase playing after a bidding phase,
\* final_bids.A + final_bids.B >= min_total_bid and each team's final bid is
\* >= board, on all three routes into playing: both confirmed in bidding,
\* accept in one-team-waiting-accept, and both re-confirmed in the re-lock
C37_FinalBidsMeetMinimum ==
  /\ [](C37_PlaysBidHand(room) => C37_FinalBidsMeet(room))
  /\ [][C37_EntersPlayingStep /\ C37_FinalBidsStayStep]_vars

\* a hand that is played after the increasing team raised its bids and
\* accepted, the final bids meeting the minimum total exactly
C37_AcceptedIntoPlaying ==
  /\ C37_PlaysBidHand(room)
  /\ room.bidding.negotiation.stage = "resolved_to_play"
  /\ room.bidding.negotiation.increasing_team # "none"
  /\ room.final_bids.A + room.final_bids.B = room.bidding.min_total_bid

\* ---------------------------------------------------------------------- C38
\* the cards a seat has played in the hand: in the archived tricks and, while
\* the hand has tricks left, on the table
C38_Played(s) ==
  Cardinality({<<k, i>> \in (1..Len(room.trick_history)) \X (1..4) :
                 room.trick_history[k].plays[i].seat = s})
    + (IF C28_HandRuns
       THEN Cardinality({i \in 1..Len(room.current_trick.plays) :
                           room.current_trick.plays[i].seat = s})
       ELSE 0)

\* the seat on turn holds a card whose play is accepted
C38_HasAcceptedPlay(r) ==
  /\ Len(r.hands[r.turn_seat]) > 0
  /\ \E i \in 1..Len(r.hands[r.turn_seat]) :
       playCardForSeat(r, r.turn_seat, r.hands[r.turn_seat][i], 0).error = "ok"

\* renege mode off and the hand has tricks left: the seat on turn can play
C38_NeverStuck ==
  (C28_HandRuns /\ ~isRenegeOn(room)) =>
    C38_HasAcceptedPlay(ensurePlayingTurnInitialized(room))

\* every seat has played the cards that are missing from its hand; with the
\* last trick archived each seat has played every card it was dealt
C38_PlaysCounted ==
  room.phase = "playing" =>
    /\ \A s \in Seats : C38_Played(s) + Len(room.hands[s]) = tricksPerHand(room)
    /\ Len(room.trick_history) <= tricksPerHand(room)
    /\ Len(room.trick_history) = tricksPerHand(room)
         => /\ \A s \in Seats : C38_Played(s) = tricksPerHand(room)
            /\ C38_Played(1) + C38_Played(2) + C38_Played(3) + C38_Played(4)
                 = 4 * tricksPerHand(room)

\* an accepted play adds one card to the count of the seat on turn
C38_PlayStep ==
  (C28_HandRuns /\ room'.phase = "playing" /\ room'.hand_number = room.hand_number
     /\ room'.hands # room.hands)
    => \A s \in Seats :
         C38_Played(s)' = C38_Played(s) + (IF s = room.turn_seat THEN 1 ELSE 0)

\* the hand in play comes to its last trick: the archive is full, or the next
\* hand has begun
C38_HandCompletes ==
  (room.phase = "playing" /\ room.hand_number = 1)
    ~> (\/ Len(room.trick_history) = tricksPerHand(room)
        \/ room.hand_number > 1)

\* the two conditions of fairness are enabled where they are asked for: a
\* pending timer that fires changes the room, and a client on turn has an
\* accepted play
C38_Scheduled ==
  /\ (C28_HandRuns /\ room.botTicksPending > 0)
       => \A seed \in Seeds(room) : maybeBotAct(botTimerFires(room), seed) # room
  /\ (C28_HandRuns /\ room.turn_seat \in ClientSeats)
       => C38_HasAcceptedPlay(room)

C39_PlayedCards(r) ==
  {r.current_trick.plays[i].card_id : i \in 1..Len(r.current_trick.plays)}
    \cup UNION {{r.trick_history[k].plays[i].card_id : i \in 1..4} :
                k \in 1..Len(r.trick_history)}

\* a trump (a spade, a joker or the deuce that the deck makes a trump) has
\* been played in the hand
C39_TrumpPlayed(r) ==
  \E id \in C39_PlayedCards(r) : CardOf(r.config, id).is_trump

\* spades are broken exactly when a trump has been played in the hand
C39_BrokenIffTrumpPlayed == room.spades_broken <=> C39_TrumpPlayed(room)

\* what a play of the seat on turn does to the flag
C39_PlaySetsFlag ==
  C28_HandRuns =>
    LET r == ensurePlayingTurnInitialized(room)
    IN  \A i \in 1..Len(r.hands[r.turn_seat]) :
          LET id == r.hands[r.turn_seat][i]
              res == playCardForSeat(room, r.turn_seat, id, 0)
          IN  (res.error = "ok" /\ res.room.hand_number = room.hand_number)
                => res.room.spades_broken
                     = (room.spades_broken \/ CardOf(room.config, id).is_trump)

\* a hand starts with the flag down, and within a hand the flag stays up
C39_FlagStep ==
  /\ room'.hand_number # room.hand_number
       => ~room'.spades_broken /\ C39_PlayedCards(room') = {}
  /\ (room'.hand_number = room.hand_number /\ room.spades_broken)
       => room'.spades_broken
  /\ (room'.hand_number = room.hand_number /\ ~room.spades_broken
        /\ room'.spades_broken)
       => /\ C28_HandRuns
          /\ \E id \in C39_PlayedCards(room') \ C39_PlayedCards(room) :
               CardOf(room.config, id).is_trump

\* C39: spades_broken is false at the start of every hand, becomes true at the
\* first accepted play of a trump card (spade, joker or D2) in that hand, and
\* never returns to false before the next hand starts; in every state of a
\* hand it is true exactly when some trump card has already been played in
\* that hand
C39_SpadesBroken ==
  /\ [](C39_BrokenIffTrumpPlayed /\ C39_PlaySetsFlag)
  /\ [][C39_FlagStep]_vars

\* the first trick of a hand was led with a plain card and a seat has played
\* a trump on it: spades are broken
C39_BrokenByTrump ==
  /\ room.phase = "playing"
  /\ Len(room.trick_history) = 0
  /\ Len(room.current_trick.plays) >= 2
  /\ ~CardOf(room.config, room.current_trick.plays[1].card_id).is_trump
  /\ room.spades_broken

\* ---------------------------------------------------------------------- C40
\* the bids a client can send: the bid_set handler of the server passes 1..13
C40_Bids == 1..13

C40_Stage == room.bidding.negotiation.stage

\* bidding, or a negotiation that is not resolved
C40_Unresolved ==
  \/ room.phase = "bidding"
  \/ /\ room.phase = "negotiating"
     /\ C40_Stage \in {"choose", "one_books_waiting_accept", "both_increase_relock"}

\* the teams confirm in a lock cycle: in bidding and in the re-lock
C40_LockCycle ==
  \/ room.phase = "bidding" /\ room.bidding.exists
  \/ room.phase = "negotiating" /\ C40_Stage = "both_increase_relock"

\* some seat has a message that its handler accepts
C40_SomeActionAccepted ==
  C40_Unresolved =>
    \E s \in Seats :
      \/ \E v \in C40_Bids : handleBidSet(room, s, v).error = "ok"
      \/ handleBidConfirm(room, s).error = "ok"
      \/ \E choice \in {"books_made", "increase"} :
           handleNegotiationChoice(room, s, choice).error = "ok"
      \/ \E accept \in BOOLEAN : handleNegotiationResponse(room, s, accept).error = "ok"

\* the team on turn to confirm has not confirmed, and it is the first of the
\* lock order until that team has confirmed
C40_ConfirmTurn ==
  C40_LockCycle =>
    LET b == room.bidding
    IN  /\ b.must_confirm_team \in Teams
        /\ ~b.confirmed[b.must_confirm_team]
        /\ b.must_confirm_team
             = IF b.confirmed[b.lock_order[1]] THEN b.lock_order[2] ELSE b.lock_order[1]
        /\ \E s \in teamSeats(b.must_confirm_team) : \E v \in C40_Bids :
             handleBidSet(room, s, v).error = "ok"

\* stage choose waits for a choice
C40_ChooseOpen ==
  (room.phase = "negotiating" /\ C40_Stage = "choose") =>
    /\ room.bidding.negotiation.choices.A = "none"
         \/ room.bidding.negotiation.choices.B = "none"
    /\ \A s \in Seats : \A choice \in {"books_made", "increase"} :
         handleNegotiationChoice(room, s, choice).error = "ok"

\* stage one_books_waiting_accept: a seat of the increasing team can decline
C40_WaitingOpen ==
  (room.phase = "negotiating" /\ C40_Stage = "one_books_waiting_accept") =>
    /\ room.bidding.negotiation.increasing_team \in Teams
    /\ \A s \in teamSeats(room.bidding.negotiation.increasing_team) :
         handleNegotiationResponse(room, s, FALSE).error = "ok"

\* C40: the bidding and negotiation protocol has no stuck state: in every
\* reachable state whose phase is bidding, or negotiating with an unresolved
\* stage, at least one seat has an action (setBid, confirm, choice or
\* response) that is accepted; in a lock cycle the team whose turn it is to
\* confirm is a team that has not yet confirmed, and stage choose never holds
\* with both teams' choices set
C40_NoStuckState ==
  C40_SomeActionAccepted /\ C40_ConfirmTurn /\ C40_ChooseOpen /\ C40_WaitingOpen

\* the re-lock of a negotiation with the first team of the lock order
\* confirmed and the second on turn
C40_RelockSecondOnTurn ==
  /\ room.phase = "negotiating"
  /\ C40_Stage = "both_increase_relock"
  /\ room.bidding.confirmed[room.bidding.lock_order[1]]
  /\ room.bidding.must_confirm_team = room.bidding.lock_order[2]
  /\ \E s \in teamSeats(room.bidding.must_confirm_team) :
       handleBidConfirm(room, s).error = "ok"

====
